---------------------------- MODULE Spec2Model ----------------------------
(***************************************************************************)
(* Verification model of the series-pipeline core: GlossaryManager, the    *)
(* name-consistency pass of stage 2, TranslationQAValidator and            *)
(* LLMEpisodeSplitter.                                                     *)
(*                                                                         *)
(* Text is modelled as a sequence of Unicode code points (naturals), so    *)
(* that substring search, replacement, stripping and the regular           *)
(* expressions of the source are computed character by character.          *)
(***************************************************************************)
EXTENDS Integers, Sequences, FiniteSets, TLC

VARIABLES
    terms,      \* GlossaryManager.glossary_data['terms']
    g_op,       \* the last GlossaryManager operation applied, add_term with its arguments
    nc_lang,    \* _generate_glossary_for_language: target_lang
    nc_terms,   \* _generate_glossary_for_language: the glossary's term list
    nc_pre,     \* the term list as it was handed to enforce_name_consistency
    nc_pc,      \* _generate_glossary_for_language: "build" (translating terms) or "enforced"
    qa_src,     \* TranslationQAValidator.source_lang
    qa_tgt,     \* TranslationQAValidator.target_lang
    qa_skip,    \* TranslationQAValidator.skip_language_mixing
    qa_glossary,\* TranslationQAValidator.glossary['terms']
    qa_text,    \* the text handed to validate
    qa_result,  \* the QAResult of validate(qa_text): [passed, issues]
    qa_fix,     \* auto_fix's return value and its "Auto-fixed" log records
    qa_backend, \* what the Backend answered for each language_mixing issue
    qa_recheck, \* the QAResult of validate(fixed_text)
    qa_pc,      \* "new", "validated", "fixed" or "revalidated"
    sp_text,    \* LLMEpisodeSplitter.process: input_data['text']
    sp_info,    \* pattern_info, the plan returned by _detect_pattern
    sp_method,  \* method: "single", "inline", "regex" or "llm"
    sp_conf,    \* confidence of the method, before validation
    sp_eps,     \* episodes
    sp_calls,   \* answers to _llm_split that were not JSON, counted up to MaxLlmCalls
    sp_meta,    \* the metadata of the result: [confidence, total_episodes]
    sp_out,     \* how execute ended: "returned", "raised" or "running"
    sp_pc,      \* the position inside execute/process
    sp_files,   \* run_stage_1: the episode files of 01_split, [name, data]
    cl_content, \* clean_trailing_episode_marker: content
    cl_cleaned, \* clean_trailing_episode_marker: the return value
    cl_pc,      \* "idle", "called" or "returned"
    st_args,    \* run_stage_2a: the language folder, auto_fix, max_retries, glossary, llm_processor
    st_files,   \* the stored content of each episode file of the language folder
    st_run,     \* the locals of the retry loop: retry_count, lang_errors, lang_fixed, ...
    st_next,    \* the index of the next episode file of the pass
    st_all_results, \* all_results[lang]
    st_pc,      \* "while", "episodes", "record", "recorded" or "raised"
    tr_files,   \* the series folder: 02_translated, the glossary file, the output files
    tr_pipe,    \* the pipeline run: its number, auto_mode, the user's choice at stage 2
    tr_stage,   \* the locals of stage 2: loop positions, Backend calls, failed_episodes
    tr_pc       \* "pipeline", "glossary", "terms", "episodes" or "ended"

gvars == <<terms, g_op>>
ncvars == <<nc_lang, nc_terms, nc_pre, nc_pc>>
qavars == <<qa_src, qa_tgt, qa_skip, qa_glossary, qa_text, qa_result, qa_fix, qa_backend,
            qa_recheck, qa_pc>>
spvars == <<sp_text, sp_info, sp_method, sp_conf, sp_eps, sp_calls, sp_meta, sp_out, sp_pc,
            sp_files>>
clvars == <<cl_content, cl_cleaned, cl_pc>>
stvars == <<st_args, st_files, st_run, st_next, st_all_results, st_pc>>
trvars == <<tr_files, tr_pipe, tr_stage, tr_pc>>
vars == <<gvars, ncvars, qavars, spvars, clvars, stvars, trvars>>

\* what an operation of one component leaves alone: the other components
g_frame == <<ncvars, qavars, spvars, clvars, stvars, trvars>>
nc_frame == <<gvars, qavars, spvars, clvars, stvars, trvars>>
qa_frame == <<gvars, ncvars, spvars, clvars, stvars, trvars>>
sp_frame == <<gvars, ncvars, qavars, clvars, stvars, trvars>>
cl_frame == <<gvars, ncvars, qavars, spvars, stvars, trvars>>
st_frame == <<gvars, ncvars, qavars, spvars, clvars, trvars>>
tr_frame == <<gvars, ncvars, qavars, spvars, clvars, stvars>>

-----------------------------------------------------------------------------
(* Python str primitives over code-point sequences.                        *)

\* str.isspace() characters that occur in the modelled texts
WhiteSpace == {9, 10, 11, 12, 13, 32, 12288}

Min2(a, b) == IF a <= b THEN a ELSE b
Max2(a, b) == IF a >= b THEN a ELSE b

\* s[i:j] with 1-based inclusive bounds, clamped like a Python slice
Slice(s, i, j) == SubSeq(s, Max2(i, 1), Min2(j, Len(s)))

\* s[i:] == sub[...] : sub occurs in s starting at index i (1-based)
StartsAt(s, sub, i) ==
    /\ i >= 1
    /\ i + Len(sub) - 1 <= Len(s)
    /\ SubSeq(s, i, i + Len(sub) - 1) = sub

\* str.find(sub, from): the first index >= from where sub occurs, 0 if none
Find(s, sub, from) ==
    LET hits == {i \in Max2(from, 1)..(Len(s) - Len(sub) + 1) : StartsAt(s, sub, i)}
    IN  IF hits = {} THEN 0 ELSE CHOOSE i \in hits : \A j \in hits : i <= j

\* str.rfind(sub, lo, hi): the last index in lo..hi-len(sub) (1-based, hi exclusive)
RFind(s, sub, lo, hi) ==
    LET hits == {i \in Max2(lo, 1)..(Min2(hi, Len(s) + 1) - Len(sub)) : StartsAt(s, sub, i)}
    IN  IF hits = {} THEN 0 ELSE CHOOSE i \in hits : \A j \in hits : i >= j

\* sub in s
Contains(s, sub) == Find(s, sub, 1) # 0

\* str.replace(old, new): every non-overlapping occurrence, left to right
RECURSIVE Replace(_, _, _)
Replace(s, old, new) ==
    IF old = <<>> THEN s
    ELSE LET p == Find(s, old, 1)
         IN  IF p = 0 THEN s
             ELSE SubSeq(s, 1, p - 1) \o new
                  \o Replace(SubSeq(s, p + Len(old), Len(s)), old, new)

RECURSIVE LStrip(_)
LStrip(s) ==
    IF s # <<>> /\ Head(s) \in WhiteSpace THEN LStrip(Tail(s)) ELSE s

RECURSIVE RStrip(_)
RStrip(s) ==
    IF s # <<>> /\ s[Len(s)] \in WhiteSpace THEN RStrip(SubSeq(s, 1, Len(s) - 1)) ELSE s

\* str.strip()
Strip(s) == LStrip(RStrip(s))

\* the set of sequences over S of length at most n
RECURSIVE SeqUpTo(_, _)
SeqUpTo(S, n) ==
    IF n = 0 THEN {<<>>}
    ELSE LET shorter == SeqUpTo(S, n - 1)
         IN  shorter \cup {Append(q, x) : q \in {r \in shorter : Len(r) = n - 1}, x \in S}

-----------------------------------------------------------------------------
(* GlossaryManager                                                         *)

\* most terms a glossary holds in the model
MaxTerms == 3
\* most rows of an initial term list or of a reviewed CSV file
MaxRows == 2

\* 서연, 이서연
GOriginals == {<<49436, 50672>>, <<51060, 49436, 50672>>}
\* 書妍, 舒妍
GTranslations == {<<26360, 22925>>, <<33298, 22925>>}
GCategories == {"character", "term"}
GContexts == {<<>>}

Term(o, t, c, x) ==
    [original |-> o, translation |-> t, category |-> c, context |-> x,
     first_appearance |-> <<>>]

\* the initial term lists create() is given are drawn from these terms
CreateTerms ==
    {Term(<<49436, 50672>>, <<26360, 22925>>, "character", <<>>),
     Term(<<49436, 50672>>, <<33298, 22925>>, "term", <<>>),
     Term(<<51060, 49436, 50672>>, <<26360, 22925>>, "character", <<>>)}

\* index of the first term whose original is o, 0 if there is none
find_term(ts, o) ==
    LET hits == {i \in 1..Len(ts) : ts[i].original = o}
    IN  IF hits = {} THEN 0 ELSE CHOOSE i \in hits : \A j \in hits : i <= j

\* a variant of add_term that appends without looking for an existing entry
add_term_nocheck(ts, o, t, c, x) == Append(ts, Term(o, t, c, x))

add_term(ts, o, t, c, x) ==
    IF find_term(ts, o) # 0 THEN ts ELSE Append(ts, Term(o, t, c, x))

\* dict.update(kwargs) on the first term whose original is o
update_term(ts, o, kw) ==
    LET i == find_term(ts, o)
    IN  IF i = 0 THEN ts
        ELSE [ts EXCEPT ![i] =
                [f \in DOMAIN ts[i] |-> IF f \in DOMAIN kw THEN kw[f] ELSE ts[i][f]]]

\* the keyword arguments update_term is called with
UpdateKwargs ==
    {[translation |-> t] : t \in GTranslations}
        \cup {[original |-> o] : o \in GOriginals}
        \cup {[category |-> c] : c \in GCategories}

\* str.lower() of the Category column values that occur
Lower(c) == IF c = "Character" THEN "character" ELSE c

\* the csv.DictReader rows of the reviewed glossary CSV: a term, the same
\* original with a trailing blank, an empty row, a row without translation, a
\* row whose original is blank
CsvRows ==
    {[Category |-> "Character", Original |-> <<49436, 50672>>,
      Translation |-> <<26360, 22925>>, Context |-> <<>>],
     [Category |-> "", Original |-> <<49436, 50672, 32>>,
      Translation |-> <<33298, 22925>>, Context |-> <<>>],
     [Category |-> "", Original |-> <<>>, Translation |-> <<>>, Context |-> <<>>],
     [Category |-> "Character", Original |-> <<51060, 49436, 50672>>,
      Translation |-> <<>>, Context |-> <<>>],
     [Category |-> "term", Original |-> <<32>>,
      Translation |-> <<26360, 22925>>, Context |-> <<>>]}

\* the term list _sync_csv_to_json_if_modified builds from the CSV rows
RECURSIVE csv_terms(_)
csv_terms(rows) ==
    IF rows = <<>> THEN <<>>
    ELSE LET row == Head(rows)
             original == Strip(row.Original)
             translation == Strip(row.Translation)
             rest == csv_terms(Tail(rows))
         IN  IF row.Original = <<>> /\ row.Translation = <<>> THEN rest
             ELSE IF original = <<>> \/ translation = <<>> THEN rest
             ELSE <<[original |-> original, translation |-> translation,
                     category |-> IF row.Category # "" THEN Lower(row.Category) ELSE "term",
                     context |-> Strip(row.Context),
                     first_appearance |-> <<>>]>> \o rest

\* GlossaryManager.__init__ without a file: an empty term list
GInit ==
    /\ terms = <<>>
    /\ g_op = [op |-> "init"]

\* create(series, source, target, terms): the term list is `terms or []`
Create ==
    \E ts \in SeqUpTo(CreateTerms, MaxRows) :
        /\ terms' = ts
        /\ g_op' = [op |-> "create"]
        /\ UNCHANGED g_frame

AddTerm ==
    \E o \in GOriginals, t \in GTranslations, c \in GCategories, x \in GContexts :
        /\ Len(terms) < MaxTerms
        /\ terms' = add_term(terms, o, t, c, x)
        /\ g_op' = [op |-> "add_term", original |-> o, translation |-> t]
        /\ UNCHANGED g_frame

UpdateTerm ==
    \E o \in GOriginals, kw \in UpdateKwargs :
        /\ terms' = update_term(terms, o, kw)
        /\ g_op' = [op |-> "update_term"]
        /\ UNCHANGED g_frame

\* the CSV is newer than the JSON: the JSON's terms are replaced by the CSV's
\* rows and the manager is reloaded from it
SyncCsv ==
    \E rows \in SeqUpTo(CsvRows, MaxRows) :
        /\ terms' = csv_terms(rows)
        /\ g_op' = [op |-> "sync_csv"]
        /\ UNCHANGED g_frame

GNext == Create \/ AddTerm \/ UpdateTerm \/ SyncCsv

-----------------------------------------------------------------------------
(* enforce_name_consistency (stage 2)                                      *)

MIDDLE_DOT_KATAKANA == 12539    \* '・'
MIDDLE_DOT_LATIN == 183         \* '·'
SPACE == 32

korean_surnames ==
    {44608, 51060, 48149, 52572, 51221, 44053, 51312, 50980, 51109, 51076,
     54620, 50724, 49436, 49888, 44428, 54889, 50504, 49569, 47448, 51204,
     54861, 44256, 47928, 50577, 49552, 48176, 48177, 54728, 50976, 45224,
     49900, 45432, 54616, 44285, 49457, 52264, 51452, 50864, 44396, 48124,
     51652, 45208, 51648, 50628, 48320, 52292, 50896, 52380, 48169, 44277}

\* c in s, for one character
HasChar(s, c) == \E i \in 1..Len(s) : s[i] = c

\* s.split(c, 1)[0] and s.split(c)[0]: the text before the first c
BeforeFirst(s, c) ==
    LET p == Find(s, <<c>>, 1) IN IF p = 0 THEN s ELSE SubSeq(s, 1, p - 1)

\* s.split(c, 1)[1]: the text after the first c (c occurs in s)
AfterFirst(s, c) == SubSeq(s, Find(s, <<c>>, 1) + 1, Len(s))

\* the first maximal run of non-whitespace characters of s, <<>> if none
RECURSIVE TakeWord(_)
TakeWord(s) ==
    IF s = <<>> \/ Head(s) \in WhiteSpace THEN <<>>
    ELSE <<Head(s)>> \o TakeWord(Tail(s))

\* str.split(): the whitespace-separated tokens of s
RECURSIVE Tokens(_)
Tokens(s) ==
    LET t == LStrip(s)
    IN  IF t = <<>> THEN <<>>
        ELSE LET w == TakeWord(t)
             IN  <<w>> \o Tokens(SubSeq(t, Len(w) + 1, Len(t)))

\* a Python dict as a sequence of [key, value] in insertion order
DictHas(d, k) == \E i \in 1..Len(d) : d[i].key = k
DictGet(d, k, default) ==
    IF DictHas(d, k) THEN d[CHOOSE i \in 1..Len(d) : d[i].key = k].value ELSE default
DictSet(d, k, v) ==
    IF DictHas(d, k)
    THEN [i \in 1..Len(d) |-> IF d[i].key = k THEN [key |-> k, value |-> v] ELSE d[i]]
    ELSE Append(d, [key |-> k, value |-> v])

\* the condition under which the first pass indexes a term as a full name
is_full_name(term, target_lang) ==
    /\ term.category = "character"
    /\ Len(term.original) >= 3
    /\ term.original[1] \in korean_surnames
    /\ Len(Tail(term.original)) >= 2
    /\ \/ target_lang = "japanese" /\ HasChar(term.translation, MIDDLE_DOT_KATAKANA)
       \/ target_lang = "taiwanese" /\ Len(term.translation) >= 3

\* a variant of first_name_translation that keeps the surname part (parts[0],
\* translation[:1]) instead of the given-name part
first_name_translation_surname(term, target_lang) ==
    IF target_lang = "japanese"
    THEN BeforeFirst(term.translation, MIDDLE_DOT_KATAKANA)
    ELSE SubSeq(term.translation, 1, 1)

\* the given-name part of a full name's translation
first_name_translation(term, target_lang) ==
    IF target_lang = "japanese"
    THEN AfterFirst(term.translation, MIDDLE_DOT_KATAKANA)
    ELSE Tail(term.translation)

\* first pass: {first_name: first_name_translation}
RECURSIVE first_name_map(_, _)
first_name_map(ts, target_lang) ==
    IF ts = <<>> THEN <<>>
    ELSE LET term == ts[Len(ts)]
             d == first_name_map(SubSeq(ts, 1, Len(ts) - 1), target_lang)
         IN  IF is_full_name(term, target_lang)
             THEN DictSet(d, Tail(term.original), first_name_translation(term, target_lang))
             ELSE d

\* the keys of full_name_map
full_name_keys(ts, target_lang) ==
    {ts[i].original : i \in {j \in 1..Len(ts) : is_full_name(ts[j], target_lang)}}

\* ' ' in original and len(original.split()) >= 2
is_multi_part(original) == HasChar(original, SPACE) /\ Len(Tokens(original)) >= 2

\* whether the foreign-name pass records a short translation for this term
has_short_translation(term, target_lang) ==
    /\ term.category = "character"
    /\ is_multi_part(term.original)
    /\ \/ target_lang = "japanese" /\ HasChar(term.translation, MIDDLE_DOT_KATAKANA)
       \/ /\ target_lang = "taiwanese"
          /\ \/ HasChar(term.translation, MIDDLE_DOT_LATIN)
             \/ HasChar(term.translation, MIDDLE_DOT_KATAKANA)
             \/ HasChar(term.translation, SPACE) /\ Len(Tokens(term.translation)) >= 1

short_translation(term, target_lang) ==
    IF target_lang = "japanese" THEN BeforeFirst(term.translation, MIDDLE_DOT_KATAKANA)
    ELSE IF HasChar(term.translation, MIDDLE_DOT_LATIN)
         THEN BeforeFirst(term.translation, MIDDLE_DOT_LATIN)
    ELSE IF HasChar(term.translation, MIDDLE_DOT_KATAKANA)
         THEN BeforeFirst(term.translation, MIDDLE_DOT_KATAKANA)
    ELSE Tokens(term.translation)[1]

\* foreign names: {short_name: short_translation}
RECURSIVE foreign_name_map(_, _)
foreign_name_map(ts, target_lang) ==
    IF ts = <<>> THEN <<>>
    ELSE LET term == ts[Len(ts)]
             d == foreign_name_map(SubSeq(ts, 1, Len(ts) - 1), target_lang)
         IN  IF has_short_translation(term, target_lang)
             THEN DictSet(d, Tokens(term.original)[1], short_translation(term, target_lang))
             ELSE d

\* {original: translation} of the character terms before any correction
RECURSIVE original_translations(_)
original_translations(ts) ==
    IF ts = <<>> THEN <<>>
    ELSE LET term == ts[Len(ts)]
             d == original_translations(SubSeq(ts, 1, Len(ts) - 1))
         IN  IF term.category = "character"
             THEN DictSet(d, term.original, term.translation)
             ELSE d

\* the exclusion set: indexed full names and every term with a multi-part original
full_names(ts, target_lang) ==
    full_name_keys(ts, target_lang)
        \cup {ts[i].original : i \in {j \in 1..Len(ts) : is_multi_part(ts[j].original)}}

\* '一' <= c <= '鿿' for every character
AllCJK(s) == \A i \in 1..Len(s) : s[i] >= 19968 /\ s[i] <= 40959

\* s[a:b] with 0-based a and exclusive b, as Python slices it
PySlice(s, a, b) == SubSeq(s, Max2(a, 0) + 1, Min2(b, Len(s)))

\* the positional fallback of 'taiwanese' for a compound term: the corrected
\* translation, or cur when no candidate is found.  int(pos_ratio * len) is
\* computed as the integer quotient, which agrees with the float product for
\* the lengths of the model.
positional_fallback(original, cur, first_name, correct) ==
    LET name_pos == Find(original, first_name, 1) - 1
        expected_pos == (name_pos * Len(cur)) \div Len(original)
        search_start == Max2(0, expected_pos - 2)
        search_end == Min2(Len(cur), expected_pos + Len(correct) + 2)
        search_region == PySlice(cur, search_start, search_end)
        cand == {i \in 0..(Len(search_region) - 2) :
                    LET potential == PySlice(search_region, i, i + Len(correct))
                    IN  /\ Len(potential) = Len(correct)
                        /\ potential # correct
                        /\ AllCJK(potential)}
    IN  IF cand = {} THEN cur
        ELSE LET i == CHOOSE x \in cand : \A y \in cand : x <= y
                 actual_start == search_start + i
             IN  PySlice(cur, 0, actual_start) \o correct
                 \o PySlice(cur, actual_start + Len(correct), Len(cur))

\* second pass, first-name loop: the translation of a term after the first
\* indexed given name contained in its original has been handled
first_name_fix(term, target_lang, fnm, otr) ==
    LET original == term.original
        cur == term.translation
        hits == {i \in 1..Len(fnm) : Contains(original, fnm[i].key)}
    IN  IF hits = {} THEN cur
        ELSE LET e == fnm[CHOOSE i \in hits : \A j \in hits : i <= j]
                 correct == e.value
                 wrong == DictGet(otr, e.key, <<>>)
             IN  IF original = e.key THEN correct
                 ELSE IF wrong # <<>> /\ wrong # correct /\ Contains(cur, wrong)
                      THEN Replace(cur, wrong, correct)
                 ELSE IF target_lang = "taiwanese" /\ Len(correct) >= 2
                      THEN positional_fallback(original, cur, e.key, correct)
                 ELSE cur

\* second pass for one term: its translation after enforcement
corrected_translation(term, target_lang, fnm, fgn, otr, excluded) ==
    IF term.original \in excluded THEN term.translation
    ELSE IF DictHas(fgn, term.original)
            /\ term.translation # DictGet(fgn, term.original, <<>>)
         THEN DictGet(fgn, term.original, <<>>)
    ELSE first_name_fix(term, target_lang, fnm, otr)

\* enforce_name_consistency(terms, target_lang): the terms with their
\* translations corrected; a changed term records its previous translation
enforce_name_consistency(ts, target_lang) ==
    LET fnm == first_name_map(ts, target_lang)
        fgn == foreign_name_map(ts, target_lang)
        otr == original_translations(ts)
        excluded == full_names(ts, target_lang)
    IN  [i \in 1..Len(ts) |->
            LET new == corrected_translation(ts[i], target_lang, fnm, fgn, otr, excluded)
            IN  IF new = ts[i].translation THEN ts[i]
                ELSE [f \in DOMAIN ts[i] \cup {"corrected_from"} |->
                        IF f = "translation" THEN new
                        ELSE IF f = "corrected_from" THEN ts[i].translation
                        ELSE ts[i][f]]]

\* most terms the generated glossary holds in the model
MaxNames == 3

\* the extracted terms with the translations the Backend may return for them
\* 이서연 李書妍 | 이서연 李妍 | 김서연 金瑞妍 | 서연 舒妍 | 서연 書妍 | 서연(term) 舒妍
\* 서연의 고모 舒妍的姑姑 | 서연네 舒妍家 | 서연네 瑞妍家 | 박서연희 朴書妍熙 | 서연희 舒妍熙
\* 아이든 시몬 艾登·西蒙 | 아이든 艾丹
NcTaiwanese ==
    {Term(<<51060, 49436, 50672>>, <<26446, 26360, 22925>>, "character", <<>>),
     Term(<<51060, 49436, 50672>>, <<26446, 22925>>, "character", <<>>),
     Term(<<44608, 49436, 50672>>, <<37329, 29790, 22925>>, "character", <<>>),
     Term(<<49436, 50672>>, <<33298, 22925>>, "character", <<>>),
     Term(<<49436, 50672>>, <<26360, 22925>>, "character", <<>>),
     Term(<<49436, 50672>>, <<33298, 22925>>, "term", <<>>),
     Term(<<49436, 50672, 51032, 32, 44256, 47784>>,
          <<33298, 22925, 30340, 22993, 22993>>, "character", <<>>),
     Term(<<49436, 50672, 45348>>, <<33298, 22925, 23478>>, "term", <<>>),
     Term(<<49436, 50672, 45348>>, <<29790, 22925, 23478>>, "term", <<>>),
     Term(<<48149, 49436, 50672, 55148>>, <<26420, 26360, 22925, 29081>>, "character", <<>>),
     Term(<<49436, 50672, 55148>>, <<33298, 22925, 29081>>, "character", <<>>),
     Term(<<50500, 51060, 46304, 32, 49884, 47788>>,
          <<33406, 30331, 183, 35199, 33945>>, "character", <<>>),
     Term(<<50500, 51060, 46304>>, <<33406, 20025>>, "character", <<>>)}

\* 이서연 イ・ソヨン | 이서연 イソヨン | 김서연 キム・セヨン | 서연 セヨン | 서연 ソヨン
\* 서연(term) セヨン | 서연의 고모 セヨンのおば | 서연네 セヨンの家
\* 아이든 시몬 アイデン・シモン | 아이든 アイドン
NcJapanese ==
    {Term(<<51060, 49436, 50672>>, <<12452, 12539, 12477, 12520, 12531>>, "character", <<>>),
     Term(<<51060, 49436, 50672>>, <<12452, 12477, 12520, 12531>>, "character", <<>>),
     Term(<<44608, 49436, 50672>>, <<12461, 12512, 12539, 12475, 12520, 12531>>, "character", <<>>),
     Term(<<49436, 50672>>, <<12475, 12520, 12531>>, "character", <<>>),
     Term(<<49436, 50672>>, <<12477, 12520, 12531>>, "character", <<>>),
     Term(<<49436, 50672>>, <<12475, 12520, 12531>>, "term", <<>>),
     Term(<<49436, 50672, 51032, 32, 44256, 47784>>,
          <<12475, 12520, 12531, 12398, 12362, 12400>>, "character", <<>>),
     Term(<<49436, 50672, 45348>>, <<12475, 12520, 12531, 12398, 23478>>, "term", <<>>),
     Term(<<50500, 51060, 46304, 32, 49884, 47788>>,
          <<12450, 12452, 12487, 12531, 12539, 12471, 12514, 12531>>, "character", <<>>),
     Term(<<50500, 51060, 46304>>, <<12450, 12452, 12489, 12531>>, "character", <<>>)}

NcUniverse(lang) == IF lang = "japanese" THEN NcJapanese ELSE NcTaiwanese

GIdle ==
    /\ terms = <<>>
    /\ g_op = [op |-> "init"]

NcIdle ==
    /\ nc_lang = "japanese"
    /\ nc_terms = <<>>
    /\ nc_pre = <<>>
    /\ nc_pc = "build"

\* _generate_glossary_for_language with no glossary file yet: an empty GlossaryManager
NcInit ==
    /\ nc_lang \in {"japanese", "taiwanese"}
    /\ nc_terms = <<>>
    /\ nc_pre = <<>>
    /\ nc_pc = "build"

\* one iteration of the term loop: translate_term, then add_term
NcAddTerm ==
    /\ nc_pc = "build"
    /\ Len(nc_terms) < MaxNames
    /\ \E t \in NcUniverse(nc_lang) :
          nc_terms' = add_term(nc_terms, t.original, t.translation, t.category, t.context)
    /\ UNCHANGED <<nc_lang, nc_pre, nc_pc>>
    /\ UNCHANGED nc_frame

\* enforce_name_consistency on get_all_terms(): the terms are corrected in place
\* (the update_term loop that follows writes the same translations again)
NcEnforce ==
    /\ nc_pc = "build"
    /\ nc_pre' = nc_terms
    /\ nc_terms' = enforce_name_consistency(nc_terms, nc_lang)
    /\ nc_pc' = "enforced"
    /\ UNCHANGED nc_lang
    /\ UNCHANGED nc_frame

NcNext == NcAddTerm \/ NcEnforce

-----------------------------------------------------------------------------
(* TranslationQAValidator (processors/translation_qa.py).                  *)

\* [\uAC00-\uD7AF]: one character of the Korean syllable pattern
IsKoreanSyllable(c) == c >= 44032 /\ c <= 55215

\* a scanner that lets a space continue a match
RECURSIVE MatchEnd_spaces(_, _)
MatchEnd_spaces(s, i) ==
    IF i <= Len(s) /\ (IsKoreanSyllable(s[i]) \/ s[i] = 32)
    THEN MatchEnd_spaces(s, i + 1) ELSE i

\* the index after the match of [\uAC00-\uD7AF]+ that starts at index i
RECURSIVE MatchEnd(_, _)
MatchEnd(s, i) ==
    IF i <= Len(s) /\ IsKoreanSyllable(s[i]) THEN MatchEnd(s, i + 1) ELSE i

\* korean_pattern.finditer(text) from index i on: [text, position] of every
\* match, left to right, position counted from 0
RECURSIVE korean_matches(_, _)
korean_matches(s, i) ==
    IF i > Len(s) THEN <<>>
    ELSE IF IsKoreanSyllable(s[i])
         THEN LET e == MatchEnd(s, i)
              IN  <<[text |-> SubSeq(s, i, e - 1), position |-> i - 1]>>
                  \o korean_matches(s, e)
         ELSE korean_matches(s, i + 1)

\* korean_pattern.search(text)
korean_search(s) == \E i \in 1..Len(s) : IsKoreanSyllable(s[i])

\* the allow-list of onomatopoeia and mimetic words, as code-point sequences
KOREAN_ONOMATOPOEIA ==
    {<<53377, 53377>>, <<53237>>, <<53125>>,
     <<51677, 51677>>, <<46377, 46041>>, <<46965, 46041>>,
     <<46749, 46749>>, <<51320, 51320>>, <<52384, 50025>>,
     <<51725, 44536, 46993>>, <<48757>>, <<54161>>,
     <<53441>>, <<46385>>, <<51805, 51805>>,
     <<52237, 52237>>, <<45181, 45181>>, <<45180, 51061>>,
     <<49296, 44145>>, <<45916, 52985>>, <<53237, 53237>>,
     <<53125, 53125>>, <<46160, 44540, 46160, 44540>>, <<53097, 45797, 53097, 45797>>,
     <<54999>>, <<55141>>, <<54729>>,
     <<50633, 50633>>, <<55121, 55121>>, <<50521, 50521>>,
     <<44628, 44628>>, <<55176, 55176>>, <<54840, 54840>>,
     <<45124, 45909, 45124, 45909>>, <<54392, 54616, 54616>>, <<44740, 44740>>,
     <<53412, 46301, 53412, 46301>>, <<45145, 45145>>, <<51805>>,
     <<54392>>, <<54736>>, <<50661>>,
     <<50640, 51079>>, <<49332, 44552, 49332, 44552>>, <<54980, 45796, 45797>>,
     <<46748, 48261, 46748, 48261>>, <<53552, 48261, 53552, 48261>>, <<55064, 52397, 55064, 52397>>,
     <<48708, 53952, 48708, 53952>>, <<50500, 51109, 50500, 51109>>, <<46244, 46769, 46244, 46769>>,
     <<49324, 49104, 49324, 49104>>}

\* correct character -> the characters it is confused with, in table order
SIMILAR_CHARACTERS(c) ==
    CASE c = 36066 -> <<28843, 29572, 37449, 27883, 30505>>    \* 賢: 炫 玄 鉉 泫 眩
    [] c = 20426 -> <<27994, 23803, 39423, 28652>>    \* 俊: 浚 峻 駿 濬
    [] c = 25935 -> <<27665, 29641, 26107, 29599, 25003>>    \* 敏: 民 珉 旻 玟 憫
    [] c = 36249 -> <<26361, 20806, 26397>>    \* 趙: 曹 兆 朝
    [] c = 36637 -> <<28999, 26249, 24509, 25582>>    \* 輝: 煇 暉 徽 揮
    [] c = 20161 -> <<20161, 23493, 35469>>    \* 仁: 仁 寅 認
    [] c = 31168 -> <<27929, 22781, 20462, 23432>>    \* 秀: 洙 壽 修 守
    [] c = 36203 -> <<36203, 29184, 22151>>    \* 赫: 赫 爀 嚇
    [] c = 20801 -> <<23609, 28516, 20523>>    \* 允: 尹 潤 倫
    [] c = 28639 -> <<28168, 31085, 21046>>    \* 濟: 済 祭 制
    [] c = 38597 -> <<20126, 23077, 33469>>    \* 雅: 亞 娥 芽
    [] OTHER -> <<>>

\* _normalize_language: lang_map.get(lang.lower(), lang.lower()) on the
\* (lower-case) language names of the pipeline
normalize_language(lang) ==
    IF lang \in {"taiwanese", "traditional_chinese", "chinese", "mandarin"}
    THEN "chinese" ELSE lang

\* __init__: skip_language_mixing, auto-detected when the argument is None
skip_language_mixing(source_lang, target_lang, arg) ==
    IF arg = "None"
    THEN normalize_language(source_lang) = normalize_language(target_lang)
    ELSE arg = "True"

\* QAIssue; a field left at None is <<>> (expected, context) or -1 (position).
\* The message is a rendering of text and expected and is not modelled.
QAIssue(type, severity, text, position, expected, context) ==
    [type |-> type, severity |-> severity, text |-> text, position |-> position,
     expected |-> expected, context |-> context]

\* text[max(0, pos - w) : min(len(text), pos + n + w)], pos counted from 0
context_of(text, pos, n, w) == Slice(text, pos - w + 1, pos + n + w)

\* _build_lookup_tables: term_map after the first n glossary terms
RECURSIVE term_map(_, _)
term_map(g, n) ==
    IF n = 0 THEN <<>>
    ELSE LET m == term_map(g, n - 1)
             t == g[n]
         IN  IF t.original # <<>> /\ t.translation # <<>>
             THEN DictSet(m, t.original, t.translation) ELSE m

\* the inner loop over one term's known_wrong_variants
RECURSIVE register_variants(_, _, _, _)
register_variants(m, variants, translation, k) ==
    IF k > Len(variants) THEN m
    ELSE register_variants(
            IF variants[k] # <<>> /\ variants[k] # translation
            THEN DictSet(m, variants[k], translation) ELSE m,
            variants, translation, k + 1)

\* _build_lookup_tables: known_variants after the first n glossary terms
RECURSIVE known_variants(_, _)
known_variants(g, n) ==
    IF n = 0 THEN <<>>
    ELSE LET m == known_variants(g, n - 1)
             t == g[n]
         IN  IF t.original # <<>> /\ t.translation # <<>>
             THEN register_variants(m, t.known_wrong_variants, t.translation, 1)
             ELSE m

\* _build_lookup_tables: char_terms after the first n glossary terms
RECURSIVE char_terms(_, _)
char_terms(g, n) ==
    IF n = 0 THEN <<>>
    ELSE LET m == char_terms(g, n - 1)
             t == g[n]
         IN  IF t.original # <<>> /\ t.translation # <<>> /\ t.category = "character"
             THEN Append(m, t) ELSE m

\* check_language_mixing: one issue per match of the Korean syllable pattern
RECURSIVE mixing_issues(_, _, _)
mixing_issues(text, ms, k) ==
    IF k > Len(ms) THEN <<>>
    ELSE <<QAIssue("language_mixing",
                   IF ms[k].text \in KOREAN_ONOMATOPOEIA THEN "warning" ELSE "error",
                   ms[k].text, ms[k].position, <<>>,
                   context_of(text, ms[k].position, Len(ms[k].text), 30))>>
         \o mixing_issues(text, ms, k + 1)

check_language_mixing(text, source_lang) ==
    IF source_lang # "korean" THEN <<>>
    ELSE mixing_issues(text, korean_matches(text, 1), 1)

\* check_glossary_consistency, first loop: one issue per term_map key found
RECURSIVE untranslated_issues(_, _, _)
untranslated_issues(text, tm, k) ==
    IF k > Len(tm) THEN <<>>
    ELSE (IF Contains(text, tm[k].key)
          THEN <<QAIssue("untranslated_term", "error", tm[k].key, -1, tm[k].value, <<>>)>>
          ELSE <<>>)
         \o untranslated_issues(text, tm, k + 1)

\* the while loop: every occurrence of the variant from index `from` (1-based)
RECURSIVE variant_occurrences(_, _, _, _)
variant_occurrences(text, wrong, correct, from) ==
    LET p == Find(text, wrong, from)
    IN  IF p = 0 THEN <<>>
        ELSE <<QAIssue("glossary_mismatch", "error", wrong, p - 1, correct,
                       context_of(text, p - 1, Len(wrong), 20))>>
             \o variant_occurrences(text, wrong, correct, p + Len(wrong))

\* check_glossary_consistency, second loop
RECURSIVE known_variant_issues(_, _, _)
known_variant_issues(text, kv, k) ==
    IF k > Len(kv) THEN <<>>
    ELSE variant_occurrences(text, kv[k].key, kv[k].value, 1)
         \o known_variant_issues(text, kv, k + 1)

\* _get_similar_alternatives: the set of one-character substitutions
similar_alternatives(t) ==
    UNION {{[t EXCEPT ![i] = SIMILAR_CHARACTERS(t[i])[k]] :
               k \in {n \in 1..Len(SIMILAR_CHARACTERS(t[i])) :
                         SIMILAR_CHARACTERS(t[i])[n] # t[i]}} :
           i \in 1..Len(t)}

\* the orders in which list(set) can enumerate S
Orderings(S) ==
    {f \in [1..Cardinality(S) -> S] : \A i, j \in 1..Cardinality(S) : f[i] = f[j] => i = j}

\* the issues of one character term for one enumeration of its alternatives
RECURSIVE alternative_issues(_, _, _, _)
alternative_issues(text, expected, alts, k) ==
    IF k > Len(alts) THEN <<>>
    ELSE (IF Contains(text, alts[k]) /\ alts[k] # expected
          THEN <<QAIssue("glossary_mismatch", "error", alts[k], -1, expected,
                         context_of(text, Find(text, alts[k], 1) - 1, Len(alts[k]), 20))>>
          ELSE <<>>)
         \o alternative_issues(text, expected, alts, k + 1)

\* check_glossary_consistency, third loop: every issue list it can produce
\* (the alternatives of a term come out of a set, in any order; only those
\* found in the text yield an issue, so only their order is enumerated)
RECURSIVE similar_issue_lists(_, _, _)
similar_issue_lists(text, cts, k) ==
    IF k > Len(cts) THEN {<<>>}
    ELSE LET expected == cts[k].translation
             found == {a \in similar_alternatives(expected) : Contains(text, a)}
         IN  {alternative_issues(text, expected, o, 1) \o rest :
                 o \in Orderings(found), rest \in similar_issue_lists(text, cts, k + 1)}

check_glossary_consistency(text, g) ==
    {untranslated_issues(text, term_map(g, Len(g)), 1)
        \o known_variant_issues(text, known_variants(g, Len(g)), 1)
        \o sim : sim \in similar_issue_lists(text, char_terms(g, Len(g)), 1)}

\* a verdict that lets any issue fail the text
has_any_issue(issues) == issues # <<>>

\* len([i for i in issues if i.severity == 'error']) == 0, negated
has_error(issues) == \E i \in 1..Len(issues) : issues[i].severity = "error"

\* validate without the early return for skip_language_mixing
validate_always_checks(text, source_lang, g, skip) ==
    {[passed |-> ~has_error(check_language_mixing(text, source_lang) \o gi),
      issues |-> check_language_mixing(text, source_lang) \o gi] :
        gi \in check_glossary_consistency(text, g)}

\* validate: every QAResult it can return for the text
validate(text, source_lang, g, skip) ==
    IF skip THEN {[passed |-> TRUE, issues |-> <<>>]}
    ELSE {[passed |-> ~has_error(check_language_mixing(text, source_lang) \o gi),
           issues |-> check_language_mixing(text, source_lang) \o gi] :
             gi \in check_glossary_consistency(text, g)}

\* str.replace(old, new, 1): the first occurrence only
ReplaceFirst(s, old, new) ==
    LET p == Find(s, old, 1)
    IN  IF p = 0 THEN s
        ELSE SubSeq(s, 1, p - 1) \o new \o SubSeq(s, p + Len(old), Len(s))

\* logger.info(f"Auto-fixed ...: {issue.text} -> {replacement}"): the record
\* the code writes wherever it replaces and counts
AutoFixed(issue, replacement) == [issue |-> issue, by |-> replacement]

\* _fix_language_mixing, the loop from issue k on. answers[k] is what
\* llm_processor.execute does for issue k: "raise", "none" (no result or an
\* empty output) or "output" with the text returned. auto_fixed is the list
\* of "Auto-fixed" log records.
RECURSIVE fix_language_mixing(_, _, _, _)
fix_language_mixing(st, issues, answers, k) ==
    IF k > Len(issues) THEN st
    ELSE LET issue == issues[k]
             a == answers[k]
             translated == Strip(a.output)
         IN  fix_language_mixing(
                IF ~Contains(st.fixed_text, issue.text) THEN st
                ELSE IF a.kind = "output" /\ a.output # <<>>
                     THEN IF ~korean_search(translated)
                          THEN [st EXCEPT
                                  !.fixed_text = ReplaceFirst(@, issue.text, translated),
                                  !.fixed_count = @ + 1,
                                  !.auto_fixed = Append(@, AutoFixed(issue, translated))]
                          ELSE [st EXCEPT !.unfixed_issues = Append(@, issue)]
                     ELSE [st EXCEPT !.unfixed_issues = Append(@, issue)],
                issues, answers, k + 1)

\* auto_fix, the loop over the issues from issue k on
RECURSIVE auto_fix_loop(_, _, _)
auto_fix_loop(st, issues, k) ==
    IF k > Len(issues) THEN st
    ELSE LET issue == issues[k]
         IN  auto_fix_loop(
                IF issue.type = "glossary_mismatch" /\ issue.expected # <<>>
                THEN IF Contains(st.fixed_text, issue.text)
                     THEN [st EXCEPT
                             !.fixed_text = Replace(@, issue.text, issue.expected),
                             !.fixed_count = @ + 1,
                             !.auto_fixed = Append(@, AutoFixed(issue, issue.expected))]
                     ELSE st
                ELSE IF issue.type = "language_mixing" /\ issue.severity = "error"
                THEN [st EXCEPT !.language_mixing_issues = Append(@, issue)]
                ELSE IF issue.type = "untranslated_term" /\ issue.expected # <<>>
                THEN IF Contains(st.fixed_text, issue.text)
                     THEN [st EXCEPT
                             !.fixed_text = Replace(@, issue.text, issue.expected),
                             !.fixed_count = @ + 1,
                             !.auto_fixed = Append(@, AutoFixed(issue, issue.expected))]
                     ELSE st
                ELSE [st EXCEPT !.unfixed_issues = Append(@, issue)],
                issues, k + 1)

\* the language_mixing errors auto_fix collects for the Backend
collected_mixing(text, issues) ==
    auto_fix_loop([fixed_text |-> text, fixed_count |-> 0, unfixed_issues |-> <<>>,
                   auto_fixed |-> <<>>, language_mixing_issues |-> <<>>],
                  issues, 1).language_mixing_issues

\* auto_fix(text, issues, llm_processor): backend.llm is FALSE for
\* llm_processor=None
auto_fix(text, issues, backend) ==
    LET st == auto_fix_loop([fixed_text |-> text, fixed_count |-> 0,
                             unfixed_issues |-> <<>>, auto_fixed |-> <<>>,
                             language_mixing_issues |-> <<>>], issues, 1)
        lm == st.language_mixing_issues
        r  == fix_language_mixing([fixed_text |-> st.fixed_text, fixed_count |-> 0,
                                   unfixed_issues |-> <<>>, auto_fixed |-> <<>>],
                                  lm, backend.answers, 1)
    IN  IF lm # <<>> /\ backend.llm
        THEN [fixed_text |-> r.fixed_text,
              fixed_count |-> st.fixed_count + r.fixed_count,
              unfixed_issues |-> st.unfixed_issues \o r.unfixed_issues,
              auto_fixed |-> st.auto_fixed \o r.auto_fixed]
        ELSE IF lm # <<>>
        THEN [fixed_text |-> st.fixed_text, fixed_count |-> st.fixed_count,
              unfixed_issues |-> st.unfixed_issues \o lm,
              auto_fixed |-> st.auto_fixed]
        ELSE [fixed_text |-> st.fixed_text, fixed_count |-> st.fixed_count,
              unfixed_issues |-> st.unfixed_issues,
              auto_fixed |-> st.auto_fixed]

\* ---- the inputs the model runs the validator on ----

MaxQaTerms == 2     \* glossary terms
MaxPieces == 2      \* pieces a text is put together from

QaTerm(o, t, c, variants) ==
    [original |-> o, translation |-> t, category |-> c, context |-> <<>>,
     known_wrong_variants |-> variants]

QaTerms ==
    {\* 아이든 -> アイデン, known wrong variant アイドゥン
     QaTerm(<<50500, 51060, 46304>>, <<12450, 12452, 12487, 12531>>, "character",
            <<<<12450, 12452, 12489, 12453, 12531>>>>),
     \* 아이든 -> アイデン, known wrong variants アイデ and アイデン itself
     QaTerm(<<50500, 51060, 46304>>, <<12450, 12452, 12487, 12531>>, "character",
            <<<<12450, 12452, 12487>>, <<12450, 12452, 12487, 12531>>>>),
     \* 아이든 -> 艾登, the entry of the Chinese glossary
     QaTerm(<<50500, 51060, 46304>>, <<33406, 30331>>, "character", <<>>),
     \* 조휘현 -> 趙輝賢
     QaTerm(<<51312, 55064, 54788>>, <<36249, 36637, 36066>>, "character", <<>>),
     \* 현현 -> 賢賢
     QaTerm(<<54788, 54788>>, <<36066, 36066>>, "character", <<>>),
     \* 쿵 -> ドン
     QaTerm(<<53237>>, <<12489, 12531>>, "term", <<>>),
     \* 쿵 -> 쿵: translate_term gave the original back
     QaTerm(<<53237>>, <<53237>>, "term", <<>>),
     \* 그는 with no translation yet
     QaTerm(<<44536, 45716>>, <<>>, "term", <<>>)}

QaGlossaries == SeqUpTo(QaTerms, MaxQaTerms)

QaPieces ==
    {<<44536, 45716>>,                      \* 그는
     <<32>>,                                \* a space
     <<53237>>,                             \* 쿵
     <<12450, 12452, 12487>>,               \* アイデ
     <<12531>>,                             \* ン
     <<12450, 12452, 12489, 12453, 12531>>, \* アイドゥン
     <<36249, 36637, 28843>>,               \* 趙輝炫
     <<50500, 51060, 46304>>,               \* 아이든
     <<29572>>,                             \* 玄
     <<28843, 36066>>}                      \* 炫賢

RECURSIVE Concat(_)
Concat(ps) == IF ps = <<>> THEN <<>> ELSE Head(ps) \o Concat(Tail(ps))

QaTexts ==
    {Concat(ps) : ps \in SeqUpTo(QaPieces, MaxPieces)}
    \cup {\* 그는 집에 갔다와서 彼は家に帰った
          <<44536, 45716, 32, 51665, 50640, 32, 44052, 45796, 50752, 49436, 32,
            24444, 12399, 23478, 12395, 24112, 12387, 12383>>,
          \* 趙輝炫賢 그는
          <<36249, 36637, 28843, 36066, 32, 44536, 45716>>}

\* <<source_lang, target_lang, skip_language_mixing argument>>: LANGUAGE_CONFIG
\* of stage 2A, the defaults of validate_episode, two other pairs, and the
\* check switched on by hand for Korean in Korean
QaLanguages ==
    {<<"korean", "korean", "True">>,
     <<"korean", "korean", "False">>,
     <<"korean", "japanese", "False">>,
     <<"korean", "traditional_chinese", "False">>,
     <<"korean", "traditional_chinese", "None">>,
     <<"korean", "korean", "None">>,
     <<"japanese", "taiwanese", "None">>}

\* what the Backend can do with one translate_segment request
BackendAnswers ==
    {[kind |-> "raise", output |-> <<>>],
     [kind |-> "none", output |-> <<>>],
     [kind |-> "output", output |-> <<32, 23478, 32>>],     \* " 家 "
     [kind |-> "output", output |-> <<24444, 45716>>],      \* 彼는
     [kind |-> "output", output |-> <<28843, 36066>>]}      \* 炫賢

NoResult == [passed |-> TRUE, issues |-> <<>>]
NoFix == [fixed_text |-> <<>>, fixed_count |-> 0, unfixed_issues |-> <<>>, auto_fixed |-> <<>>]
NoBackend == [llm |-> FALSE, answers |-> <<>>]

QaIdle ==
    /\ qa_src = "korean"
    /\ qa_tgt = "korean"
    /\ qa_skip = TRUE
    /\ qa_glossary = <<>>
    /\ qa_text = <<>>
    /\ qa_result = NoResult
    /\ qa_fix = NoFix
    /\ qa_backend = NoBackend
    /\ qa_recheck = NoResult
    /\ qa_pc = "idle"

\* TranslationQAValidator(source_lang, target_lang, glossary, skip_language_mixing)
\* and the text of an episode
QaInit ==
    /\ \E l \in QaLanguages :
          /\ qa_src = l[1]
          /\ qa_tgt = l[2]
          /\ qa_skip = skip_language_mixing(l[1], l[2], l[3])
    /\ qa_glossary \in QaGlossaries
    /\ qa_text \in QaTexts
    /\ qa_result = NoResult
    /\ qa_fix = NoFix
    /\ qa_backend = NoBackend
    /\ qa_recheck = NoResult
    /\ qa_pc = "new"

\* result = validator.validate(content)
QaValidate ==
    /\ qa_pc = "new"
    /\ qa_result' \in validate(qa_text, qa_src, qa_glossary, qa_skip)
    /\ qa_pc' = "validated"
    /\ UNCHANGED <<qa_src, qa_tgt, qa_skip, qa_glossary, qa_text, qa_fix, qa_backend,
                   qa_recheck>>
    /\ UNCHANGED qa_frame

\* validator.auto_fix(content, result.issues, llm_processor)
QaAutoFix ==
    /\ qa_pc = "validated"
    /\ \E llm \in BOOLEAN :
          \E answers \in [1..(IF llm THEN Len(collected_mixing(qa_text, qa_result.issues))
                              ELSE 0) -> BackendAnswers] :
             /\ qa_backend' = [llm |-> llm, answers |-> answers]
             /\ qa_fix' = auto_fix(qa_text, qa_result.issues, qa_backend')
    /\ qa_pc' = "fixed"
    /\ UNCHANGED <<qa_src, qa_tgt, qa_skip, qa_glossary, qa_text, qa_result, qa_recheck>>
    /\ UNCHANGED qa_frame

\* validating the fixed text again with the same validator
QaRevalidate ==
    /\ qa_pc = "fixed"
    /\ qa_recheck' \in validate(qa_fix.fixed_text, qa_src, qa_glossary, qa_skip)
    /\ qa_pc' = "revalidated"
    /\ UNCHANGED <<qa_src, qa_tgt, qa_skip, qa_glossary, qa_text, qa_result, qa_fix,
                   qa_backend>>
    /\ UNCHANGED qa_frame

QaNext == QaValidate \/ QaAutoFix \/ QaRevalidate

-----------------------------------------------------------------------------
(* LLMEpisodeSplitter (processors/llm_episode_splitter.py).                *)

NEWLINE == 10
BOM == 65279

\* text.split('\n')
RECURSIVE SplitLines(_)
SplitLines(s) ==
    LET p == Find(s, <<NEWLINE>>, 1)
    IN  IF p = 0 THEN <<s>>
        ELSE <<SubSeq(s, 1, p - 1)>> \o SplitLines(SubSeq(s, p + 1, Len(s)))

\* '\n'.join(lines)
RECURSIVE JoinLines(_)
JoinLines(lines) ==
    IF lines = <<>> THEN <<>>
    ELSE IF Len(lines) = 1 THEN lines[1]
    ELSE lines[1] \o <<NEWLINE>> \o JoinLines(Tail(lines))

\* s.lstrip(BOM)
RECURSIVE LStripBOM(_)
LStripBOM(s) == IF s # <<>> /\ Head(s) = BOM THEN LStripBOM(Tail(s)) ELSE s

\* line.strip().lstrip(BOM)
line_stripped(line) == LStripBOM(Strip(line))

IsDigit(c) == c >= 48 /\ c <= 57

\* int(digits) for a string of decimal digits
RECURSIVE ToInt(_)
ToInt(d) == IF d = <<>> THEN 0 ELSE 10 * ToInt(SubSeq(d, 1, Len(d) - 1)) + (d[Len(d)] - 48)

\* ---- the regular expressions of the source, as element lists ----
\* An element is a literal, an optional literal (?:...)?, a digit run
\* \d+ or \d{3} (capturing or not), .+ or [^\n]+, \s*, or $.

Lit(str) == [t |-> "lit", s |-> str, min |-> 0, max |-> 0, cap |-> FALSE]
Opt(str) == [t |-> "opt", s |-> str, min |-> 0, max |-> 0, cap |-> FALSE]
Digits(lo, hi, cap) == [t |-> "digits", s |-> <<>>, min |-> lo, max |-> hi, cap |-> cap]
DotPlus == [t |-> "dot+", s |-> <<>>, min |-> 1, max |-> 0, cap |-> FALSE]
WsStar == [t |-> "ws*", s |-> <<>>, min |-> 0, max |-> 0, cap |-> FALSE]
EndOfText == [t |-> "end", s |-> <<>>, min |-> 0, max |-> 0, cap |-> FALSE]

NoMatch == [ok |-> FALSE, start |-> 0, end |-> 0, group |-> <<>>]

\* how many characters from index i on an element of kind t can take
RECURSIVE RunLength(_, _, _, _)
RunLength(s, i, t, limit) ==
    IF i > Len(s) \/ limit = 0 THEN 0
    ELSE IF \/ t = "digits" /\ IsDigit(s[i])
            \/ t = "dot+" /\ s[i] # NEWLINE
            \/ t = "ws*" /\ s[i] \in WhiteSpace
         THEN 1 + RunLength(s, i + 1, t, limit - 1)
         ELSE 0

\* the match of elements k.. of pat at index i of s, as a backtracking matcher
\* finds it: quantifiers are greedy and give back one character at a time.
\* g is group 1 so far; `end` is the index after the match.
RECURSIVE MatchFrom(_, _, _, _, _)
RECURSIVE MatchRun(_, _, _, _, _, _)
MatchFrom(pat, k, s, i, g) ==
    IF k > Len(pat) THEN [ok |-> TRUE, start |-> 0, end |-> i, group |-> g]
    ELSE LET e == pat[k]
         IN  CASE e.t = "lit" ->
                    IF StartsAt(s, e.s, i) THEN MatchFrom(pat, k + 1, s, i + Len(e.s), g)
                    ELSE NoMatch
               [] e.t = "opt" ->
                    LET with == IF StartsAt(s, e.s, i)
                                THEN MatchFrom(pat, k + 1, s, i + Len(e.s), g)
                                ELSE NoMatch
                    IN  IF with.ok THEN with ELSE MatchFrom(pat, k + 1, s, i, g)
               [] e.t = "end" ->
                    IF i = Len(s) + 1 \/ (i = Len(s) /\ s[i] = NEWLINE)
                    THEN MatchFrom(pat, k + 1, s, i, g)
                    ELSE NoMatch
               [] OTHER ->
                    MatchRun(pat, k, s, i, g,
                             RunLength(s, i, e.t, IF e.max = 0 THEN Len(s) ELSE e.max))

\* the run element k takes n characters, then n - 1, ... down to its minimum
MatchRun(pat, k, s, i, g, n) ==
    IF n < pat[k].min THEN NoMatch
    ELSE LET r == MatchFrom(pat, k + 1, s, i + n,
                            IF pat[k].cap THEN SubSeq(s, i, i + n - 1) ELSE g)
         IN  IF r.ok THEN r ELSE MatchRun(pat, k, s, i, g, n - 1)

\* re.match(pattern, s)
re_match(pat, s) == [MatchFrom(pat, 1, s, 1, <<>>) EXCEPT !.start = 1]

\* re.search(pattern, s) from index `from` on: the leftmost match
RECURSIVE re_search(_, _, _)
re_search(pat, s, from) ==
    IF from > Len(s) + 1 THEN NoMatch
    ELSE LET r == MatchFrom(pat, 1, s, from, <<>>)
         IN  IF r.ok THEN [r EXCEPT !.start = from] ELSE re_search(pat, s, from + 1)

\* re.finditer(pattern, s) from index `from` on (the patterns used with it
\* match at least one character)
RECURSIVE re_finditer(_, _, _)
re_finditer(pat, s, from) ==
    LET r == re_search(pat, s, from)
    IN  IF ~r.ok THEN <<>> ELSE <<r>> \o re_finditer(pat, s, r.end)

\* whether the pattern has a group 1
has_group(pat) == \E k \in 1..Len(pat) : pat[k].cap

\* KNOWN_PATTERNS, in dictionary order: name and regular expression.
\* The names with Korean or Japanese characters are written in Latin letters:
\* "#N_hwa" is '#N화', "$N_hwa" '$N화', "dai_N_wa" '第N話', "je_N_hwa" '제N화'.
KNOWN_PATTERNS ==
    <<[key |-> "#N_hwa",
       value |-> <<Lit(<<35>>), Digits(1, 0, TRUE), Lit(<<54868>>), WsStar, EndOfText>>],
      [key |-> "$N_hwa",
       value |-> <<Lit(<<36>>), Digits(1, 0, TRUE), Lit(<<54868>>), WsStar, EndOfText>>],
      [key |-> "$NNN",
       value |-> <<Lit(<<36>>), Digits(3, 3, TRUE)>>],
      [key |-> "* * *$NNN",
       value |-> <<Lit(<<42, 32, 42, 32, 42, 36>>), Digits(3, 3, TRUE)>>],
      [key |-> "$NNN+* * *$NNN",
       value |-> <<Opt(<<42, 32, 42, 32, 42>>), Lit(<<36>>), Digits(3, 3, TRUE)>>],
      [key |-> "dai_N_wa",
       value |-> <<Lit(<<31532>>), Digits(1, 0, TRUE), Lit(<<35441>>), WsStar, EndOfText>>],
      [key |-> "je_N_hwa",
       value |-> <<Lit(<<51228>>), Digits(1, 0, TRUE), Lit(<<54868>>), WsStar, EndOfText>>],
      [key |-> "N. Title (N)",
       value |-> <<Digits(1, 0, TRUE), Lit(<<46, 32>>), DotPlus, Lit(<<32, 40>>),
                   Digits(1, 0, FALSE), Lit(<<41>>)>>],
      [key |-> "NN. Title",
       value |-> <<Digits(1, 0, TRUE), Lit(<<46, 32>>), DotPlus>>],
      [key |-> "//N",
       value |-> <<Lit(<<47, 47>>), Digits(1, 0, TRUE), WsStar, EndOfText>>]>>

\* INLINE_EPISODE_PATTERN: \$(\d{3})
INLINE_EPISODE_PATTERN == <<Lit(<<36>>), Digits(3, 3, TRUE)>>

\* _inline_split: split_pattern (?:\* \* \*)?\$(\d{3})
split_pattern == <<Opt(<<42, 32, 42, 32, 42>>), Lit(<<36>>), Digits(3, 3, TRUE)>>

\* TRAILING_EPISODE_PATTERNS, in list order
TRAILING_EPISODE_PATTERNS ==
    <<<<Lit(<<NEWLINE>>), WsStar, Lit(<<35>>), Digits(1, 0, FALSE), Lit(<<54868>>),
        WsStar, EndOfText>>,
      <<Lit(<<NEWLINE>>), WsStar, Lit(<<36>>), Digits(3, 3, FALSE), WsStar, EndOfText>>,
      <<Lit(<<NEWLINE>>), WsStar, Lit(<<42, 32, 42, 32, 42, 36>>), Digits(3, 3, FALSE)>>,
      <<Lit(<<NEWLINE>>), WsStar, Lit(<<42, 32, 42, 32, 42>>), WsStar, EndOfText>>,
      <<Lit(<<NEWLINE>>), WsStar, Lit(<<31532>>), Digits(1, 0, FALSE), Lit(<<35441>>),
        WsStar, EndOfText>>,
      <<Lit(<<NEWLINE>>), WsStar, Lit(<<51228>>), Digits(1, 0, FALSE), Lit(<<54868>>),
        WsStar, EndOfText>>,
      <<Lit(<<NEWLINE>>), WsStar, Digits(1, 0, FALSE), Lit(<<54868>>), WsStar, EndOfText>>,
      <<Lit(<<NEWLINE>>), WsStar, Lit(<<47, 47>>), Digits(1, 0, FALSE), WsStar, EndOfText>>,
      <<Lit(<<NEWLINE>>), WsStar, Digits(1, 0, FALSE), Lit(<<46>>), WsStar, DotPlus,
        EndOfText>>>>

\* the loop of clean_trailing_episode_marker from pattern k on
RECURSIVE strip_first_marker(_, _)
strip_first_marker(cleaned, k) ==
    IF k > Len(TRAILING_EPISODE_PATTERNS) THEN cleaned
    ELSE LET m == re_search(TRAILING_EPISODE_PATTERNS[k], cleaned, 1)
         IN  IF m.ok THEN RStrip(SubSeq(cleaned, 1, m.start - 1))
             ELSE strip_first_marker(cleaned, k + 1)

clean_trailing_episode_marker(content) == strip_first_marker(RStrip(content), 1)

\* a regular expression carried in pattern_info: kind is "none" for a missing
\* or empty string, "invalid" for one re.compile rejects, else "ok";
\* bare_number says the string is '^(\d+)$'
Regex(kind, bare_number, els) == [kind |-> kind, bare_number |-> bare_number, els |-> els]
NoRegex == Regex("none", FALSE, <<>>)

\* one entry of pattern_info['patterns']
Pattern(name, regex) == [separator_pattern |-> name, pattern_regex |-> regex]

\* pattern_info; a key that is absent or None is "None" (names), NoRegex,
\* FALSE (use_inline_split, has_patterns) or <<>> (the epilogue keyword);
\* has_is_multi_episode says whether the key 'is_multi_episode' is there
PatternInfo(multi, has_patterns, patterns, primary, separator, regex, estimated, confidence, inline, epilogue) ==
    [is_multi_episode |-> multi, has_patterns |-> has_patterns, patterns |-> patterns,
     primary_pattern |-> primary, separator_pattern |-> separator,
     pattern_regex |-> regex, estimated_episodes |-> estimated,
     confidence |-> confidence, use_inline_split |-> inline, epilogue |-> epilogue,
     has_is_multi_episode |-> TRUE]

\* the same object without the key 'is_multi_episode'
without_is_multi_episode(info) == [info EXCEPT !.has_is_multi_episode = FALSE]

is_known_pattern(name) == \E k \in 1..Len(KNOWN_PATTERNS) : KNOWN_PATTERNS[k].key = name
known_regex(name) ==
    Regex("ok", FALSE, KNOWN_PATTERNS[CHOOSE k \in 1..Len(KNOWN_PATTERNS) :
                                         KNOWN_PATTERNS[k].key = name].value)

\* the number of lines the pattern matches
count_matches(pat, lines) ==
    Cardinality({n \in 1..Len(lines) : re_match(pat, line_stripped(lines[n])).ok})

\* _detect_known_pattern_directly: pattern_counts after the first k catalog patterns
RECURSIVE pattern_counts(_, _)
pattern_counts(lines, k) ==
    IF k = 0 THEN <<>>
    ELSE LET c == count_matches(KNOWN_PATTERNS[k].value, lines)
             d == pattern_counts(lines, k - 1)
         IN  IF c > 0 THEN DictSet(d, KNOWN_PATTERNS[k].key, c) ELSE d

\* max(pattern_counts.values()) if pattern_counts else 0
max_count(counts) ==
    IF counts = <<>> THEN 0
    ELSE LET vals == {counts[k].value : k \in 1..Len(counts)}
         IN  CHOOSE v \in vals : \A w \in vals : v >= w

\* max(pattern_counts, key=pattern_counts.get): the first key with the largest count
best_pattern(counts) ==
    counts[CHOOSE k \in 1..Len(counts) :
              /\ counts[k].value = max_count(counts)
              /\ \A j \in 1..(k - 1) : counts[j].value < max_count(counts)].key

\* len(set(int(m) for m in inline_matches))
inline_count(text) ==
    LET ms == re_finditer(INLINE_EPISODE_PATTERN, text, 1)
    IN  Cardinality({ToInt(ms[k].group) : k \in 1..Len(ms)})

\* the same plan at confidence 90
DirectInfo_conf90(name, regex, estimated, inline) ==
    PatternInfo(TRUE, TRUE, <<Pattern(name, regex)>>, name, "None", regex, estimated,
                90, inline, <<>>)

\* the plan of a direct detection: confidence 95, no special episodes
DirectInfo(name, regex, estimated, inline) ==
    PatternInfo(TRUE, TRUE, <<Pattern(name, regex)>>, name, "None", regex, estimated,
                95, inline, <<>>)

\* the answer "None" of _detect_known_pattern_directly
NoInfo == PatternInfo(FALSE, FALSE, <<>>, "None", "None", NoRegex, 0, 0, FALSE, <<>>)

\* _detect_known_pattern_directly(text); found is FALSE for the answer None
detect_known_pattern_directly(text) ==
    LET counts == pattern_counts(SplitLines(text), Len(KNOWN_PATTERNS))
        inline == inline_count(text)
        best == best_pattern(counts)
    IN  IF inline > 0 /\ 2 * inline > 3 * max_count(counts)
        THEN [found |-> TRUE,
              info |-> DirectInfo("$NNN (inline)", Regex("ok", FALSE, INLINE_EPISODE_PATTERN),
                                  inline, TRUE)]
        ELSE IF counts = <<>>
        THEN [found |-> FALSE, info |-> NoInfo]
        ELSE IF DictHas(counts, "$NNN") /\ DictHas(counts, "* * *$NNN")
        THEN [found |-> TRUE,
              info |-> DirectInfo("$NNN+* * *$NNN", known_regex("$NNN+* * *$NNN"),
                                  DictGet(counts, "$NNN", 0) + DictGet(counts, "* * *$NNN", 0),
                                  FALSE)]
        ELSE IF max_count(counts) < 3
        THEN [found |-> FALSE, info |-> NoInfo]
        ELSE [found |-> TRUE,
              info |-> DirectInfo(best, known_regex(best), max_count(counts), FALSE)]

\* the plan _detect_pattern returns when the Backend call or the parsing of
\* its answer fails
FallbackInfo == PatternInfo(FALSE, FALSE, <<>>, "None", "None", NoRegex, 1, 50, FALSE, <<>>)

\* _detect_pattern(text) for the answer the Backend gives when it is asked:
\* "error" (the call raises, the text is not JSON, or a key read inside the try
\* block is missing) or "json" with the parsed object
detect_pattern(text, answer) ==
    LET direct == detect_known_pattern_directly(text)
    IN  IF direct.found THEN direct.info
        ELSE IF answer.kind = "error" THEN FallbackInfo
        ELSE IF answer.info.has_patterns THEN answer.info
        ELSE [answer.info EXCEPT
                !.has_patterns = TRUE,
                !.patterns = <<Pattern(answer.info.separator_pattern,
                                       answer.info.pattern_regex)>>,
                !.primary_pattern = answer.info.separator_pattern]

Episode(number, title, content) == [number |-> number, title |-> title, content |-> content]

\* the whole text, trimmed, as episode 1
single_episode_trimmed(text) == <<Episode(1, <<>>, Strip(text))>>

\* the fallback of every strategy: the whole text as episode 1
single_episode(text) == <<Episode(1, <<>>, text)>>

\* the state of the line loops: episodes, current_episode (has_current is
\* FALSE for None) and current_content (a list of lines)
LoopStart == [episodes |-> <<>>, has_current |-> FALSE, current |-> 0, content |-> <<>>]

\* episodes.append({'number': current_episode, 'title': None, 'content': cleaned_content})
save_episode(st) ==
    Append(st.episodes,
           Episode(st.current, <<>>,
                   clean_trailing_episode_marker(Strip(JoinLines(st.content)))))

\* int(match.group(1)), or for a pattern without a group the first run of
\* digits of the matched text; ok is FALSE when there is none
episode_number(els, s, m) ==
    IF has_group(els) THEN [ok |-> TRUE, number |-> ToInt(m.group)]
    ELSE LET d == re_search(<<Digits(1, 0, TRUE)>>, SubSeq(s, m.start, m.end - 1), 1)
         IN  IF d.ok THEN [ok |-> TRUE, number |-> ToInt(d.group)]
             ELSE [ok |-> FALSE, number |-> 0]

\* the state after a separator line: the previous episode saved, a new one
\* started with the text that follows the separator on the line
start_episode(st, number, s, m) ==
    LET remaining_text == Strip(SubSeq(s, m.end, Len(s)))
    IN  [episodes |-> IF st.has_current THEN save_episode(st) ELSE st.episodes,
         has_current |-> TRUE,
         current |-> number,
         content |-> IF remaining_text # <<>> THEN <<remaining_text>> ELSE <<>>]

\* _regex_split: the loop over the lines from line n on
RECURSIVE regex_loop(_, _, _, _)
regex_loop(els, lines, n, st) ==
    IF n > Len(lines) THEN st
    ELSE LET s == line_stripped(lines[n])
             m == re_match(els, s)
             num == episode_number(els, s, m)
         IN  regex_loop(els, lines, n + 1,
                IF m.ok
                THEN IF num.ok THEN start_episode(st, num.number, s, m)
                     ELSE [st EXCEPT !.episodes = IF st.has_current THEN save_episode(st)
                                                  ELSE st.episodes]
                ELSE IF st.has_current
                     THEN [st EXCEPT !.content = Append(@, lines[n])]
                     ELSE st)

\* _multi_pattern_regex_split: one line against the compiled patterns from k on
RECURSIVE multi_line(_, _, _, _)
multi_line(pats, k, s, st) ==
    IF k > Len(pats) THEN [st |-> st, matched |-> FALSE]
    ELSE LET m == re_match(pats[k], s)
             num == episode_number(pats[k], s, m)
         IN  IF ~m.ok THEN multi_line(pats, k + 1, s, st)
             ELSE IF num.ok
             THEN [st |-> start_episode(st, num.number, s, m), matched |-> TRUE]
             ELSE multi_line(pats, k + 1, s,
                             [st EXCEPT !.episodes = IF st.has_current THEN save_episode(st)
                                                     ELSE st.episodes])

\* _multi_pattern_regex_split: the loop over the lines from line n on
RECURSIVE multi_loop(_, _, _, _)
multi_loop(pats, lines, n, st) ==
    IF n > Len(lines) THEN st
    ELSE LET r == multi_line(pats, 1, line_stripped(lines[n]), st)
         IN  multi_loop(pats, lines, n + 1,
                IF ~r.matched /\ r.st.has_current
                THEN [r.st EXCEPT !.content = Append(@, lines[n])]
                ELSE r.st)

\* [ep for ep in episodes if ep['content'].strip()]
NonEmpty(ep) == Strip(ep.content) # <<>>
drop_empty(episodes) == SelectSeq(episodes, NonEmpty)

\* str.lower() on the Latin letters
lower_text(s) == [n \in 1..Len(s) |-> IF s[n] >= 65 /\ s[n] <= 90 THEN s[n] + 32 ELSE s[n]]

\* _handle_special_episodes: the epilogue keyword in the first 100 characters
\* of the last episode becomes its title
handle_special_episodes(episodes, info) ==
    IF /\ episodes # <<>>
       /\ info.epilogue # <<>>
       /\ Contains(lower_text(SubSeq(episodes[Len(episodes)].content, 1,
                                     Min2(100, Len(episodes[Len(episodes)].content)))),
                   lower_text(info.epilogue))
    THEN [episodes EXCEPT ![Len(episodes)].title = info.epilogue]
    ELSE episodes

\* the index of the line that is the (idx+1)-th non-empty one, 0 if none
RECURSIVE nth_non_empty(_, _, _)
nth_non_empty(lines, n, idx) ==
    IF n > Len(lines) THEN 0
    ELSE IF Strip(lines[n]) # <<>>
         THEN IF idx = 0 THEN n ELSE nth_non_empty(lines, n + 1, idx - 1)
         ELSE nth_non_empty(lines, n + 1, idx)

\* while lines and not lines[0].strip(): lines.pop(0)
RECURSIVE pop_empty(_)
pop_empty(lines) ==
    IF lines # <<>> /\ Strip(Head(lines)) = <<>> THEN pop_empty(Tail(lines)) ELSE lines

\* the title the Backend reports for an episode (its text does not matter)
BACKEND_TITLE == <<84>>

\* _extract_titles_from_episodes: one item {idx, title, title_line_idx} applied
apply_title(ep, title_line_idx) ==
    LET lines == SplitLines(ep.content)
        n == nth_non_empty(lines, 1, title_line_idx)
        blanked == IF n = 0 THEN lines ELSE [lines EXCEPT ![n] = <<>>]
    IN  [ep EXCEPT !.title = BACKEND_TITLE,
                   !.content = Strip(JoinLines(pop_empty(blanked)))]

\* the items of the Backend's answer applied from item k on; an idx beyond the
\* list raises IndexError, which ends the loop
RECURSIVE apply_titles(_, _, _)
apply_titles(episodes, items, k) ==
    IF k > Len(items) THEN episodes
    ELSE IF items[k].idx + 1 > Len(episodes) THEN episodes
    ELSE apply_titles([episodes EXCEPT ![items[k].idx + 1] =
                                          apply_title(@, items[k].title_line_idx)],
                      items, k + 1)

\* whether _extract_titles_from_episodes calls the Backend at all
needs_titles(episodes) ==
    \E n \in 1..Len(episodes) :
        episodes[n].title = <<>> /\ Strip(episodes[n].content) # <<>>

\* _extract_titles_from_episodes(episodes) for the Backend's answer: "error"
\* (the call raises or the text is not JSON) or "json" with the result items
extract_titles_from_episodes(episodes, answer) ==
    IF ~needs_titles(episodes) \/ answer.kind = "error" THEN episodes
    ELSE apply_titles(episodes, answer.items, 1)

\* _regex_split with one usable pattern: what it returns, and whether it goes
\* on to the title extraction
regex_split_single(text, info, els) ==
    LET t == LStripBOM(text)
        st == regex_loop(els, SplitLines(t), 1, LoopStart)
        episodes == IF st.has_current /\ st.content # <<>> THEN save_episode(st)
                    ELSE st.episodes
    IN  IF episodes = <<>> THEN [episodes |-> single_episode(t), titles |-> FALSE]
        ELSE [episodes |-> handle_special_episodes(episodes, info), titles |-> TRUE]

has_specific_name(name) ==
    name \in {"#N_hwa", "$N_hwa", "$NNN", "$NNN+* * *$NNN", "$NNN (inline)", "dai_N_wa",
              "je_N_hwa", "//N", "Chapter N"}

IsSpecific(p) == has_specific_name(p.separator_pattern)
NotGeneric(p) == ~p.pattern_regex.bare_number /\ p.separator_pattern # "N"
Compiles(p) == p.pattern_regex.kind = "ok"

\* _multi_pattern_regex_split: the patterns left after the filter
filtered_patterns(patterns_list) ==
    IF SelectSeq(patterns_list, IsSpecific) # <<>>
       /\ SelectSeq(patterns_list, NotGeneric) # <<>>
    THEN SelectSeq(patterns_list, NotGeneric)
    ELSE patterns_list

\* _multi_pattern_regex_split: compiled_patterns
compiled_patterns(patterns_list) ==
    LET ok == SelectSeq(filtered_patterns(patterns_list), Compiles)
    IN  [k \in 1..Len(ok) |-> ok[k].pattern_regex.els]

\* _multi_pattern_regex_split once the patterns are compiled
multi_pattern_split(text, info, pats) ==
    LET t == LStripBOM(text)
        st == multi_loop(pats, SplitLines(t), 1, LoopStart)
        episodes == IF st.has_current THEN save_episode(st) ELSE st.episodes
    IN  IF episodes = <<>> THEN [episodes |-> single_episode(t), titles |-> FALSE]
        ELSE [episodes |-> handle_special_episodes(drop_empty(episodes), info),
              titles |-> TRUE]

\* re.sub(r'\s*\* \* \*\s*$', '', content)
trailing_scene_break == <<WsStar, Lit(<<42, 32, 42, 32, 42>>), WsStar, EndOfText>>
strip_scene_break(content) ==
    LET m == re_search(trailing_scene_break, content, 1)
    IN  IF m.ok THEN SubSeq(content, 1, m.start - 1) \o SubSeq(content, m.end, Len(content))
        ELSE content

\* _inline_split: the content of the episode of match k
inline_content(t, matches, k) ==
    LET content_start == matches[k].end
        next_start == matches[k + 1].start
        prefix_check == SubSeq(t, Max2(1, next_start - 10), next_start - 1)
        asterisk_pos == RFind(t, <<42, 32, 42, 32, 42>>, content_start, next_start)
        content_end ==
            IF k + 1 <= Len(matches)
            THEN IF Contains(prefix_check, <<42, 32, 42, 32, 42>>) /\ asterisk_pos # 0
                 THEN asterisk_pos
                 ELSE next_start
            ELSE Len(t) + 1
    IN  Strip(strip_scene_break(
                clean_trailing_episode_marker(
                    Strip(SubSeq(t, content_start, content_end - 1)))))

\* _inline_split(text, pattern_info) up to the title extraction
inline_split(text, info) ==
    LET t == LStripBOM(text)
        matches == re_finditer(split_pattern, t, 1)
        episodes == [k \in 1..Len(matches) |->
                        Episode(ToInt(matches[k].group), <<>>, inline_content(t, matches, k))]
    IN  IF matches = <<>> THEN [episodes |-> single_episode(t), titles |-> FALSE]
        ELSE [episodes |-> handle_special_episodes(drop_empty(episodes), info),
              titles |-> TRUE]

\* sum(len(ep['content']) for ep in episodes)
RECURSIVE total_chars(_)
total_chars(episodes) ==
    IF episodes = <<>> THEN 0 ELSE Len(Head(episodes).content) + total_chars(Tail(episodes))

\* _validate_split(episodes, pattern_info, original_text): the confidence before
\* the floor. The percentages are compared as integers: diff_pct > 20 is
\* 5 * |actual - estimated| > estimated, preserved_pct < 80 is
\* 5 * total_chars < 4 * original_chars.
validation_score(episodes, info, original_text) ==
    LET actual == Len(episodes)
        estimated == info.estimated_episodes
        diff == IF actual >= estimated THEN actual - estimated ELSE estimated - actual
        gaps == Cardinality({n \in 1..(actual - 1) :
                                episodes[n + 1].number - episodes[n].number > 2})
        very_short_count == Cardinality({n \in 1..actual :
                                            Len(Tokens(episodes[n].content)) < 20})
    IN  100
        - (IF estimated > 0 /\ 5 * diff > estimated THEN 10 ELSE 0)
        - 5 * gaps
        - (IF 10 * very_short_count > actual THEN 5 ELSE 0)
        - (IF Len(original_text) = 0 \/ 5 * total_chars(episodes) < 4 * Len(original_text)
           THEN 10 ELSE 0)

\* the same loop without the floor of the returned confidence
validate_split_nofloor(episodes, info, original_text) ==
    validation_score(episodes, info, original_text)

\* _validate_split: max(confidence, 70)
validate_split(episodes, info, original_text) ==
    Max2(validation_score(episodes, info, original_text), 70)

\* ---- the manuscripts and Backend answers the model runs the splitter on ----

MaxEpisodes == 3    \* separators in a manuscript
MaxLlmCalls == 2    \* highest count of answers to _llm_split that are not JSON

\* n as decimal digits, n < 100
ToDigits(n) == IF n < 10 THEN <<48 + n>> ELSE <<48 + (n \div 10), 48 + (n % 10)>>

\* a line of 20 one-character words
LongLine == [n \in 1..39 |-> IF n % 2 = 1 THEN 44032 ELSE 32]

\* what follows a separator: nothing, a blank line, a short line, a line of
\* 20 words, a short line followed by a scene break
SpBodies ==
    {<<>>,
     <<32>>,
     <<44032, 32, 45208>>,
     LongLine,
     <<44032, NEWLINE, 42, 32, 42, 32, 42>>}

\* how a manuscript marks its episodes, and whether marker and text stand on
\* lines of their own
SpLayouts ==
    {[style |-> "$NNN", glue |-> <<NEWLINE>>],
     [style |-> "$NNN", glue |-> <<>>],
     [style |-> "* * *$NNN", glue |-> <<NEWLINE>>],
     [style |-> "#N_hwa", glue |-> <<NEWLINE>>],
     [style |-> "#N_hwa Title", glue |-> <<NEWLINE>>]}

SpNumberings == {"sequential", "gapped"}

\* text before the first separator
SpPreambles == {<<>>, <<49436, 32, 47928>>}

episode_no(numbering, k) == IF numbering = "sequential" THEN k ELSE 4 * k - 3

Separator(style, n) ==
    CASE style = "$NNN" -> <<36, 48>> \o (IF n < 10 THEN <<48>> ELSE <<>>) \o ToDigits(n)
      [] style = "* * *$NNN" ->
            <<42, 32, 42, 32, 42, 36, 48>> \o (IF n < 10 THEN <<48>> ELSE <<>>) \o ToDigits(n)
      [] style = "#N_hwa" -> <<35>> \o ToDigits(n) \o <<54868>>
      [] OTHER -> <<35>> \o ToDigits(n) \o <<54868, 32, 49884, 51089>>

\* the manuscript with the given preamble and one block per body
RECURSIVE Blocks(_, _, _, _)
Blocks(layout, numbering, bodies, k) ==
    IF k > Len(bodies) THEN <<>>
    ELSE (IF k > 1 THEN layout.glue ELSE <<>>)
         \o Separator(layout.style, episode_no(numbering, k))
         \o (IF bodies[k] = <<>> THEN <<>> ELSE layout.glue \o bodies[k])
         \o Blocks(layout, numbering, bodies, k + 1)

Manuscript(layout, numbering, preamble, bodies) ==
    (IF preamble = <<>> THEN <<>>
     ELSE preamble \o (IF bodies = <<>> THEN <<>> ELSE layout.glue))
    \o Blocks(layout, numbering, bodies, 1)

\* manuscripts without any separator: a line of 20 words, with and without a
\* newline at its end
SpPlainTexts == {LongLine, LongLine \o <<NEWLINE>>}

\* manuscripts in which the marker $001 stands twice: '가 나$001다 라$001마' and
\* '$001\n가 나\n$002\n다\n$001\n마'
SpRepeatedTexts ==
    {<<44032, 32, 45208, 36, 48, 48, 49, 45796, 32, 46972, 36, 48, 48, 49, 47560>>,
     <<36, 48, 48, 49, NEWLINE, 44032, 32, 45208, NEWLINE, 36, 48, 48, 50, NEWLINE, 45796,
       NEWLINE, 36, 48, 48, 49, NEWLINE, 47560>>}

SpManuscripts ==
    {Manuscript(l, n, p, b) :
        l \in SpLayouts, n \in SpNumberings, p \in SpPreambles,
        b \in SeqUpTo(SpBodies, MaxEpisodes)}
    \cup SpPlainTexts \cup SpRepeatedTexts

\* regular expressions a Backend suggests: '^#(\d+)화', '^#\d+화', '^(\d+)$'
hash_regex == Regex("ok", FALSE, <<Lit(<<35>>), Digits(1, 0, TRUE), Lit(<<54868>>)>>)
hash_regex_nogroup == Regex("ok", FALSE, <<Lit(<<35>>), Digits(1, 0, FALSE), Lit(<<54868>>)>>)
number_regex == Regex("ok", TRUE, <<Digits(1, 0, TRUE), EndOfText>>)
invalid_regex == Regex("invalid", FALSE, <<>>)

MultiInfo(patterns, primary, estimated, confidence) ==
    PatternInfo(TRUE, TRUE, patterns, primary, "None", NoRegex, estimated, confidence,
                FALSE, <<>>)

\* what the Backend can answer to the pattern-detection prompt
DetectAnswers ==
    {[kind |-> "error", info |-> NoInfo],
     \* a single episode
     [kind |-> "json",
      info |-> PatternInfo(FALSE, TRUE, <<>>, "None", "None", NoRegex, 1, 90, FALSE, <<>>)],
     [kind |-> "json",
      info |-> PatternInfo(FALSE, TRUE, <<>>, "None", "None", NoRegex, 5, 40, FALSE, <<>>)],
     \* a catalog name with the Backend's own expression
     [kind |-> "json",
      info |-> MultiInfo(<<Pattern("#N_hwa", hash_regex)>>, "#N_hwa", 3, 100)],
     [kind |-> "json",
      info |-> MultiInfo(<<Pattern("#N_hwa", hash_regex)>>, "#N_hwa", 1, 60)],
     [kind |-> "json",
      info |-> MultiInfo(<<Pattern("#N_hwa", hash_regex_nogroup)>>, "#N_hwa", 2, 95)],
     [kind |-> "json",
      info |-> MultiInfo(<<Pattern("$NNN", NoRegex)>>, "$NNN", 2, 90)],
     [kind |-> "json",
      info |-> MultiInfo(<<Pattern("$NNN", invalid_regex)>>, "$NNN", 2, 90)],
     \* two patterns
     [kind |-> "json",
      info |-> MultiInfo(<<Pattern("$NNN", known_regex("$NNN")), Pattern("N", number_regex)>>,
                         "$NNN", 2, 80)],
     \* a name outside the catalog
     [kind |-> "json",
      info |-> MultiInfo(<<Pattern("#N_hwa Title", hash_regex)>>, "#N_hwa Title", 3, 77)],
     [kind |-> "json",
      info |-> MultiInfo(<<Pattern("#N_hwa Title", invalid_regex)>>, "#N_hwa Title", 2, 90)],
     \* two patterns, neither of which compiles
     [kind |-> "json",
      info |-> MultiInfo(<<Pattern("$NNN", invalid_regex), Pattern("N", invalid_regex)>>,
                         "$NNN", 2, 90)],
     \* the old format: separator_pattern and pattern_regex at the top level
     [kind |-> "json",
      info |-> PatternInfo(TRUE, FALSE, <<>>, "None", "Episode N", hash_regex, 3, 100,
                           FALSE, <<50640, 54596>>)],
     \* no 'is_multi_episode': {"patterns": [], "estimated_episodes": 1, "confidence": 90}
     [kind |-> "json",
      info |-> without_is_multi_episode(
                   PatternInfo(FALSE, TRUE, <<>>, "None", "None", NoRegex, 1, 90, FALSE, <<>>))]}

\* what the Backend can answer to the split prompt
SplitAnswers(text) ==
    {[kind |-> "error", episodes |-> <<>>],
     [kind |-> "malformed", episodes |-> <<>>],
     [kind |-> "json", episodes |-> <<>>],
     [kind |-> "json", episodes |-> <<Episode(1, <<>>, text)>>],
     [kind |-> "json",
      episodes |-> <<Episode(1, BACKEND_TITLE, <<44032, 32, 45208>>),
                     Episode(5, <<>>, <<45208>>),
                     Episode(9, <<>>, <<45796, NEWLINE, 36, 48, 49, 48>>)>>]}

\* what the Backend can answer to the title prompt
TitleAnswers ==
    {[kind |-> "error", items |-> <<>>],
     [kind |-> "json", items |-> <<[idx |-> 0, title_line_idx |-> 0]>>],
     [kind |-> "json", items |-> <<[idx |-> 1, title_line_idx |-> 1],
                                   [idx |-> 7, title_line_idx |-> 0],
                                   [idx |-> 0, title_line_idx |-> 0]>>]}

NoMeta == [confidence |-> 0, validation |-> 0, total_episodes |-> 0]

SpIdle ==
    /\ sp_text = <<>>
    /\ sp_info = NoInfo
    /\ sp_method = "none"
    /\ sp_conf = 0
    /\ sp_eps = <<>>
    /\ sp_calls = 0
    /\ sp_meta = NoMeta
    /\ sp_out = "running"
    /\ sp_pc = "idle"
    /\ sp_files = {}

\* splitter.execute({'text': text})
SpInit ==
    /\ sp_text \in SpManuscripts
    /\ sp_info = NoInfo
    /\ sp_method = "none"
    /\ sp_conf = 0
    /\ sp_eps = <<>>
    /\ sp_calls = 0
    /\ sp_meta = NoMeta
    /\ sp_out = "running"
    /\ sp_pc = "start"
    /\ sp_files = {}

\* an exception leaves process and execute
Raise ==
    /\ sp_out' = "raised"
    /\ sp_pc' = "done"

\* process, step 1: the empty-text check and _detect_pattern
SpDetect ==
    /\ sp_pc = "start"
    /\ IF sp_text = <<>>
       THEN Raise /\ UNCHANGED sp_info
       ELSE /\ \E answer \in DetectAnswers : sp_info' = detect_pattern(sp_text, answer)
            /\ sp_pc' = "plan"
            /\ UNCHANGED sp_out
    /\ UNCHANGED <<sp_text, sp_method, sp_conf, sp_eps, sp_calls, sp_meta>>
    /\ UNCHANGED sp_files
    /\ UNCHANGED sp_frame

\* process, step 2: the method and its confidence
SpChoose ==
    /\ sp_pc = "plan"
    /\ IF ~sp_info.has_is_multi_episode
       THEN \* pattern_info['is_multi_episode'] is a KeyError
            /\ UNCHANGED <<sp_method, sp_conf, sp_eps>>
            /\ Raise
       ELSE IF ~sp_info.is_multi_episode
       THEN /\ sp_method' = "single"
            /\ sp_conf' = 100
            /\ sp_eps' = single_episode(sp_text)
            /\ sp_pc' = "check"
            /\ UNCHANGED sp_out
       ELSE IF sp_info.use_inline_split
       THEN /\ sp_method' = "inline"
            /\ sp_conf' = sp_info.confidence
            /\ sp_pc' = "inline"
            /\ UNCHANGED <<sp_eps, sp_out>>
       ELSE IF is_known_pattern(sp_info.primary_pattern)
               \/ is_known_pattern(sp_info.separator_pattern)
       THEN /\ sp_method' = "regex"
            /\ sp_conf' = sp_info.confidence
            /\ sp_pc' = "regex"
            /\ UNCHANGED <<sp_eps, sp_out>>
       ELSE /\ sp_method' = "llm"
            /\ sp_conf' = (sp_info.confidence * 9) \div 10
            /\ sp_pc' = "llm"
            /\ UNCHANGED <<sp_eps, sp_out>>
    /\ UNCHANGED <<sp_text, sp_info, sp_calls, sp_meta>>
    /\ UNCHANGED sp_files
    /\ UNCHANGED sp_frame

\* the end of a split strategy: on to the title extraction or back to process
Splitted(r) ==
    /\ sp_eps' = r.episodes
    /\ sp_pc' = IF r.titles THEN "titles" ELSE "check"
    /\ UNCHANGED sp_out

\* _inline_split up to the title extraction
SpInlineSplit ==
    /\ sp_pc = "inline"
    /\ Splitted(inline_split(sp_text, sp_info))
    /\ UNCHANGED <<sp_text, sp_info, sp_method, sp_conf, sp_calls, sp_meta>>
    /\ UNCHANGED sp_files
    /\ UNCHANGED sp_frame

\* _regex_split (and _multi_pattern_regex_split) up to the title extraction,
\* or up to the call of _llm_split
SpRegexSplit ==
    /\ sp_pc = "regex"
    /\ IF sp_info.has_patterns /\ Len(sp_info.patterns) > 1
       THEN IF compiled_patterns(sp_info.patterns) = <<>>
            THEN sp_pc' = "llm" /\ UNCHANGED <<sp_eps, sp_out>>
            ELSE Splitted(multi_pattern_split(sp_text, sp_info,
                                              compiled_patterns(sp_info.patterns)))
       ELSE LET pattern == IF sp_info.has_patterns /\ sp_info.patterns # <<>>
                           THEN sp_info.patterns[1].pattern_regex
                           ELSE sp_info.pattern_regex
            IN  IF pattern.kind = "none"
                THEN sp_pc' = "llm" /\ UNCHANGED <<sp_eps, sp_out>>
                ELSE IF pattern.kind = "invalid"
                THEN \* re.match raises re.error.  Called from the try block
                     \* of _llm_split (after a malformed answer, the only way
                     \* to get here with sp_calls > 0) the error is caught
                     \* there: _regex_split is called again, uncaught, if the
                     \* plan has a top-level pattern_regex, and the text is one
                     \* episode otherwise
                     IF sp_calls > 0 /\ sp_info.pattern_regex.kind = "none"
                     THEN sp_eps' = single_episode(sp_text) /\ sp_pc' = "check"
                          /\ UNCHANGED sp_out
                     ELSE Raise /\ UNCHANGED sp_eps
                ELSE Splitted(regex_split_single(sp_text, sp_info, pattern.els))
    /\ UNCHANGED <<sp_text, sp_info, sp_method, sp_conf, sp_calls, sp_meta>>
    /\ UNCHANGED sp_files
    /\ UNCHANGED sp_frame

\* episodes of the Backend's answer with the trailing markers cleaned
clean_episodes(episodes) ==
    [n \in 1..Len(episodes) |->
        IF episodes[n].content # <<>>
        THEN [episodes[n] EXCEPT !.content = clean_trailing_episode_marker(@)]
        ELSE episodes[n]]

\* _llm_split up to the title extraction or the call of _regex_split
SpLlmSplit ==
    /\ sp_pc = "llm"
    /\ \E answer \in SplitAnswers(sp_text) :
          /\ IF answer.kind = "malformed"
             THEN sp_pc' = "regex" /\ UNCHANGED sp_eps
             ELSE IF answer.kind = "error"
             THEN IF sp_info.pattern_regex.kind # "none"
                  THEN sp_pc' = "regex" /\ UNCHANGED sp_eps
                  ELSE sp_eps' = single_episode(sp_text) /\ sp_pc' = "check"
             ELSE sp_eps' = clean_episodes(answer.episodes) /\ sp_pc' = "titles"
          /\ sp_calls' = IF answer.kind = "malformed" THEN Min2(sp_calls + 1, MaxLlmCalls)
                          ELSE sp_calls
    /\ UNCHANGED <<sp_text, sp_info, sp_method, sp_conf, sp_meta, sp_out>>
    /\ UNCHANGED sp_files
    /\ UNCHANGED sp_frame

\* _extract_titles_from_episodes, the last step of a split strategy
SpTitles ==
    /\ sp_pc = "titles"
    /\ \E answer \in TitleAnswers : sp_eps' = extract_titles_from_episodes(sp_eps, answer)
    /\ sp_pc' = "check"
    /\ UNCHANGED <<sp_text, sp_info, sp_method, sp_conf, sp_calls, sp_meta, sp_out>>
    /\ UNCHANGED sp_files
    /\ UNCHANGED sp_frame

\* process, step 3: _validate_split and the result
SpValidateSplit ==
    /\ sp_pc = "check"
    /\ sp_meta' = [confidence |-> Min2(sp_conf, validate_split(sp_eps, sp_info, sp_text)),
                   validation |-> validate_split(sp_eps, sp_info, sp_text),
                   total_episodes |-> Len(sp_eps)]
    /\ sp_pc' = "processed"
    /\ UNCHANGED <<sp_text, sp_info, sp_method, sp_conf, sp_eps, sp_calls, sp_out>>
    /\ UNCHANGED sp_files
    /\ UNCHANGED sp_frame

\* LLMEpisodeSplitter.validate(output_data)
validate_output(episodes, meta) == episodes # <<>> /\ meta.confidence >= 70

\* execute: the output of process is validated and returned, or ValueError
SpFinish ==
    /\ sp_pc = "processed"
    /\ sp_out' = IF validate_output(sp_eps, sp_meta) THEN "returned" ELSE "raised"
    /\ sp_pc' = "done"
    /\ UNCHANGED <<sp_text, sp_info, sp_method, sp_conf, sp_eps, sp_calls, sp_meta>>
    /\ UNCHANGED sp_files
    /\ UNCHANGED sp_frame

\* korean_numbers of get_tts_heading: 일 이 삼 ... 십, 십일 ... 이십, 삼십 ... 구십, 백
korean_digits == <<51068, 51060, 49340, 49324, 50724, 50977, 52832, 54036, 44396>>

korean_numbers_has(n) == n \in 1..20 \/ n \in {30, 40, 50, 60, 70, 80, 90, 100}

korean_numbers(n) ==
    IF n = 100 THEN <<48177>>
    ELSE IF n < 10 THEN <<korean_digits[n]>>
    ELSE IF n = 10 THEN <<49901>>
    ELSE IF n < 20 THEN <<49901, korean_digits[n - 10]>>
    ELSE <<korean_digits[n \div 10], 49901>>

\* korean_numbers.get(n, default)
korean_numbers_get(n, default) == IF korean_numbers_has(n) THEN korean_numbers(n) ELSE default

\* the tens-and-ones branch of get_tts_heading
korean_below_hundred(n, default) ==
    IF n % 10 = 0 THEN korean_numbers_get((n \div 10) * 10, default)
    ELSE korean_numbers_get((n \div 10) * 10, <<>>) \o korean_numbers_get(n % 10, <<>>)

\* get_tts_heading(episode_number, language='korean', title): num_text
korean_num_text(n) ==
    IF n <= 20 THEN korean_numbers_get(n, ToDigits(n))
    ELSE IF n < 100 THEN korean_below_hundred(n, ToDigits(n))
    ELSE IF n = 100 THEN <<48177>>
    ELSE (IF n \div 100 = 1 THEN <<48177>>
          ELSE korean_numbers_get(n \div 100, ToDigits(n \div 100)) \o <<48177>>)
         \o (IF n % 100 = 0 THEN <<>>
             ELSE IF n % 100 <= 20 THEN korean_numbers_get(n % 100, ToDigits(n % 100))
             ELSE korean_below_hundred(n % 100, <<>>))

\* get_tts_heading: "Episode 일. 제목.\n\n", or "Episode 일.\n\n" without a title
get_tts_heading(n, title) ==
    <<69, 112, 105, 115, 111, 100, 101, 32>> \o korean_num_text(n) \o <<46>>
    \o (IF title = <<>> THEN <<>> ELSE <<32>> \o title \o <<46>>) \o <<NEWLINE, NEWLINE>>

\* episode_data of the save loop
episode_data(episode) ==
    [episode_number |-> episode.number, title |-> episode.title,
     content |-> get_tts_heading(episode.number, episode.title) \o episode.content]

\* open(episode_file, 'w') and json.dump: the file of that name holds the data
write_file(files, name, data) ==
    {f \in files : f.name # name} \cup {[name |-> name, data |-> data]}

\* the save loop of run_stage_1: one file per episode, named after the
\* episode's number (f"episode_{episode['number']:03d}.json", which differs
\* for different numbers)
RECURSIVE save_episodes(_, _)
save_episodes(episodes, files) ==
    IF episodes = <<>> THEN files
    ELSE save_episodes(Tail(episodes),
                       write_file(files, Head(episodes).number, episode_data(Head(episodes))))

\* run_stage_1 after splitter.execute has returned: the episodes are saved
SpSave ==
    /\ sp_pc = "done"
    /\ sp_out = "returned"
    /\ sp_files' = save_episodes(sp_eps, sp_files)
    /\ sp_pc' = "saved"
    /\ UNCHANGED <<sp_text, sp_info, sp_method, sp_conf, sp_eps, sp_calls, sp_meta, sp_out>>
    /\ UNCHANGED sp_frame

SpNext ==
    \/ SpDetect
    \/ SpChoose
    \/ SpInlineSplit
    \/ SpRegexSplit
    \/ SpLlmSplit
    \/ SpTitles
    \/ SpValidateSplit
    \/ SpFinish
    \/ SpSave

\* ---- clean_trailing_episode_marker called on its own ----

MaxCleanLines == 3    \* lines of a content

\* the lines of a content: text, text ending in a blank, an empty line, the
\* markers '* * *$003', '$002', '#2화' and '* * *', a marker followed by text,
\* and a numbered line
ClLines ==
    {<<44032>>,
     <<45208, 32>>,
     <<>>,
     <<42, 32, 42, 32, 42, 36, 48, 48, 51>>,
     <<42, 32, 42, 32, 42, 36, 48, 48, 51, 45796>>,
     <<36, 48, 48, 50>>,
     <<35, 50, 54868>>,
     <<42, 32, 42, 32, 42>>,
     <<50, 46, 32, 44032>>}

ClContents == {JoinLines(ls) : ls \in SeqUpTo(ClLines, MaxCleanLines) \ {<<>>}}

ClIdle ==
    /\ cl_content = <<>>
    /\ cl_cleaned = <<>>
    /\ cl_pc = "idle"

ClInit ==
    /\ cl_content \in ClContents
    /\ cl_cleaned = <<>>
    /\ cl_pc = "called"

\* clean_trailing_episode_marker(content)
ClClean ==
    /\ cl_pc = "called"
    /\ cl_cleaned' = clean_trailing_episode_marker(cl_content)
    /\ cl_pc' = "returned"
    /\ UNCHANGED cl_content
    /\ UNCHANGED cl_frame

ClNext == ClClean

-----------------------------------------------------------------------------
(* run_stage_2a (stage_02a_translation_qa.py): the validate-and-fix loop  *)
(* over the episodes of one language folder.                               *)

\* LANGUAGE_CONFIG[lang]
LANGUAGE_CONFIG(lang) ==
    CASE lang = "korean" ->
           [source_lang |-> "korean", target_lang |-> "korean",
            skip_language_mixing |-> "True"]
      [] lang = "japanese" ->
           [source_lang |-> "korean", target_lang |-> "japanese",
            skip_language_mixing |-> "False"]
      [] lang = "taiwanese" ->
           [source_lang |-> "korean", target_lang |-> "traditional_chinese",
            skip_language_mixing |-> "False"]

\* QAResult.error_count and QAResult.warning_count
RECURSIVE count_severity(_, _)
count_severity(issues, severity) ==
    IF issues = <<>> THEN 0
    ELSE (IF Head(issues).severity = severity THEN 1 ELSE 0)
         + count_severity(Tail(issues), severity)
error_count(result) == count_severity(result.issues, "error")
warning_count(result) == count_severity(result.issues, "warning")

\* the loop exits after a pass only when the language passed or auto-fix is off
leaves_loop_without_nofix_exit(auto_fix_on, lang_passed, lang_fixed, lang_errors) ==
    \/ lang_passed
    \/ ~auto_fix_on

\* the break statements at the end of a pass (lines 240-251)
leaves_loop(auto_fix_on, lang_passed, lang_fixed, lang_errors) ==
    \/ lang_passed
    \/ ~auto_fix_on
    \/ lang_fixed = 0 /\ lang_errors > 0

MaxStageEpisodes == 2   \* episode files of the language folder
MaxRetries == 3         \* the largest max_retries

\* the stored contents: アイドゥン, アイデ, 그는, 쿵, ン, 아이든
StContents ==
    {<<12450, 12452, 12489, 12453, 12531>>, <<12450, 12452, 12487>>, <<44536, 45716>>,
     <<53237>>, <<12531>>, <<50500, 51060, 46304>>}

\* an episode file that json.load rejects
Unreadable == <<-1>>

\* the glossaries: none, 아이든 -> アイデン with the wrong variant アイドゥン or
\* with the wrong variant アイデ, 쿵 -> ドン
StGlossaries ==
    {<<>>,
     <<QaTerm(<<50500, 51060, 46304>>, <<12450, 12452, 12487, 12531>>, "character",
              <<<<12450, 12452, 12489, 12453, 12531>>>>)>>,
     <<QaTerm(<<50500, 51060, 46304>>, <<12450, 12452, 12487, 12531>>, "character",
              <<<<12450, 12452, 12487>>, <<12450, 12452, 12487, 12531>>>>)>>,
     <<QaTerm(<<53237>>, <<12489, 12531>>, "term", <<>>)>>}

\* glossary_taiwanese.json: none, or 아이든 -> 艾登
StChineseGlossaries ==
    {<<>>, <<QaTerm(<<50500, 51060, 46304>>, <<33406, 30331>>, "character", <<>>)>>}

\* languages_to_validate: the target_language argument, or the language
\* folders found, sorted
StLanguageLists == {<<"korean">>, <<"japanese">>, <<"taiwanese">>, <<"japanese", "taiwanese">>}

\* the glossary files of the series folder, by language (<<>>: no file)
StGlossaryFiles ==
    [korean : StGlossaries, japanese : StGlossaries, taiwanese : StChineseGlossaries]

\* the glossary the validators get: the terms of the glossary files of all
\* languages_to_validate, one file after the other (lines 101-112)
RECURSIVE load_glossaries(_, _)
load_glossaries(languages, files) ==
    IF languages = <<>> THEN <<>>
    ELSE files[Head(languages)] \o load_glossaries(Tail(languages), files)

NoRun ==
    [retry_count |-> 0, cumulative_fixed |-> 0, lang_passed |-> FALSE,
     lang_results |-> <<>>, lang_errors |-> 0, lang_warnings |-> 0, lang_fixed |-> 0]
NoArgs == [lang |-> "korean", auto_fix |-> FALSE, llm |-> FALSE, max_retries |-> 0,
           languages |-> <<>>, glossary_files |-> <<>>, glossary |-> <<>>]
NoRecord ==
    [results |-> <<>>, error_count |-> 0, warning_count |-> 0, fixed_count |-> 0,
     passed |-> FALSE, retries |-> 0]

StIdle ==
    /\ st_args = NoArgs
    /\ st_files = <<>>
    /\ st_run = NoRun
    /\ st_next = 0
    /\ st_all_results = NoRecord
    /\ st_pc = "idle"

\* run_stage_2a(series_folder, target_language, auto_fix, max_retries=...) at
\* the head of the retry loop of one of its languages; llm is FALSE when
\* LLMProcessor() could not be created.  A language that is not validated has
\* no glossary file.
StInit ==
    /\ \E languages \in StLanguageLists, files \in StGlossaryFiles :
          /\ \A l \in DOMAIN files :
                (\A k \in 1..Len(languages) : languages[k] # l) => files[l] = <<>>
          /\ st_args \in [lang : {languages[k] : k \in 1..Len(languages)},
                          auto_fix : BOOLEAN, llm : BOOLEAN, max_retries : 0..MaxRetries,
                          languages : {languages}, glossary_files : {files},
                          glossary : {load_glossaries(languages, files)}]
    /\ st_args.llm => st_args.auto_fix
    /\ st_files \in SeqUpTo(StContents \cup {Unreadable}, MaxStageEpisodes) \ {<<>>}
    /\ st_run = NoRun
    /\ st_next = 0
    /\ st_all_results = NoRecord
    /\ st_pc = "while"

\* while retry_count < max_retries: the start of a pass, or the end of the loop
StWhile ==
    /\ st_pc = "while"
    /\ IF st_run.retry_count < st_args.max_retries
       THEN /\ st_run' = [st_run EXCEPT !.retry_count = @ + 1, !.lang_results = <<>>,
                                        !.lang_errors = 0, !.lang_warnings = 0,
                                        !.lang_fixed = 0]
            /\ st_next' = 1
            /\ st_pc' = "episodes"
       ELSE /\ st_pc' = "record"
            /\ UNCHANGED <<st_run, st_next>>
    /\ UNCHANGED <<st_args, st_files, st_all_results>>
    /\ UNCHANGED st_frame

\* the body of `for episode_file in episodes` for one file
StEpisode ==
    /\ st_pc = "episodes"
    /\ st_next <= Len(st_files)
    /\ LET config == LANGUAGE_CONFIG(st_args.lang)
           content == st_files[st_next]
           skip == skip_language_mixing(config.source_lang, config.target_lang,
                                        config.skip_language_mixing)
       IN  IF content = Unreadable
           THEN \* json.load raises; the handler of line 224 reports the file
                UNCHANGED <<st_files, st_run>>
           ELSE
           \E result \in validate(content, config.source_lang, st_args.glossary, skip) :
           \E answers \in [1..(IF st_args.llm
                               THEN Len(collected_mixing(content, result.issues))
                               ELSE 0) -> BackendAnswers] :
              LET fix == auto_fix(content, result.issues,
                                  [llm |-> st_args.llm, answers |-> answers])
                  fixed == st_args.auto_fix /\ result.issues # <<>> /\ fix.fixed_count > 0
              IN  /\ st_files' = IF fixed THEN [st_files EXCEPT ![st_next] = fix.fixed_text]
                                 ELSE st_files
                  /\ st_run' = [st_run EXCEPT
                                  !.lang_results = Append(@, result),
                                  !.lang_errors = @ + error_count(result),
                                  !.lang_warnings = @ + warning_count(result),
                                  !.lang_fixed = IF fixed THEN @ + fix.fixed_count ELSE @]
    /\ st_next' = st_next + 1
    /\ UNCHANGED <<st_args, st_all_results, st_pc>>
    /\ UNCHANGED st_frame

\* the end of a pass: cumulative_fixed, lang_passed and the break statements
StEndPass ==
    /\ st_pc = "episodes"
    /\ st_next > Len(st_files)
    /\ st_run' = [st_run EXCEPT !.cumulative_fixed = @ + st_run.lang_fixed,
                                !.lang_passed = (st_run.lang_errors = 0)]
    /\ st_pc' = IF leaves_loop(st_args.auto_fix, st_run.lang_errors = 0,
                               st_run.lang_fixed, st_run.lang_errors)
                THEN "record" ELSE "while"
    /\ UNCHANGED <<st_args, st_files, st_next, st_all_results>>
    /\ UNCHANGED st_frame

\* all_results[lang] = {...}; lang_results is unbound when no pass was made
StRecord ==
    /\ st_pc = "record"
    /\ IF st_run.retry_count = 0
       THEN /\ st_pc' = "raised"
            /\ UNCHANGED st_all_results
       ELSE /\ st_all_results' =
                  [results |-> st_run.lang_results, error_count |-> st_run.lang_errors,
                   warning_count |-> st_run.lang_warnings,
                   fixed_count |-> st_run.cumulative_fixed,
                   passed |-> st_run.lang_passed, retries |-> st_run.retry_count]
            /\ st_pc' = "recorded"
    /\ UNCHANGED <<st_args, st_files, st_run, st_next>>
    /\ UNCHANGED st_frame

StNext == StWhile \/ StEpisode \/ StEndPass \/ StRecord

-----------------------------------------------------------------------------
(* Stage 2 for one target language (stage_02_translate.py) under the        *)
(* pipeline's stage loop (pipeline.py), over successive pipeline runs.      *)

MaxTrEpisodes == 2  \* episode files of 01_split
MaxTrTerms == 2     \* terms the extraction returns
MaxRuns == 2        \* pipeline runs on the same series folder

\* max_retries = 3 of the episode translation (line 422)
translate_max_retries == 3

TrNoStage ==
    [term_next |-> 0, term_calls |-> <<>>, next |-> 0, attempt |-> 0, calls |-> <<>>,
     failed_episodes |-> {}, skipped_episodes |-> {}]

TrIdle ==
    /\ tr_files = [dir |-> FALSE, glossary |-> <<>>, has_glossary |-> FALSE, out |-> <<>>]
    /\ tr_pipe = [run |-> 0, auto_mode |-> FALSE, choice |-> "none", terms |-> 0,
                  start |-> <<>>]
    /\ tr_stage = TrNoStage
    /\ tr_pc = "idle"

\* a series folder after stage 1, before the first pipeline run reaches stage 2:
\* no 02_translated folder and no glossary file
TrInit ==
    /\ \E n \in 1..MaxTrEpisodes :
          tr_files = [dir |-> FALSE, glossary |-> <<>>, has_glossary |-> FALSE,
                      out |-> [e \in 1..n |-> "none"]]
    /\ \E auto \in BOOLEAN, t \in 0..MaxTrTerms :
          tr_pipe = [run |-> 1, auto_mode |-> auto, choice |-> "none", terms |-> t,
                     start |-> tr_files.out]
    /\ tr_stage = TrNoStage
    /\ tr_pc = "pipeline"

\* make_stages, stage 2: 'output_check': any(d.iterdir()) if d.exists() else False
output_check(files) == files.dir

\* run_pipeline at stage 2: the stage is run, or skipped because its output
\* exists (always in auto mode, by the user's choice otherwise), or the
\* pipeline is aborted
TrStageCheck ==
    /\ tr_pc = "pipeline"
    /\ IF output_check(tr_files)
       THEN IF tr_pipe.auto_mode
            THEN tr_pc' = "ended" /\ tr_pipe' = [tr_pipe EXCEPT !.choice = "s"]
            ELSE \E choice \in {"r", "s", "a"} :
                    /\ tr_pipe' = [tr_pipe EXCEPT !.choice = choice]
                    /\ tr_pc' = IF choice = "r" THEN "glossary" ELSE "ended"
       ELSE tr_pc' = "glossary" /\ tr_pipe' = [tr_pipe EXCEPT !.choice = "r"]
    /\ tr_stage' = TrNoStage
    /\ UNCHANGED tr_files
    /\ UNCHANGED tr_frame

\* the call of _translate_episodes_for_language: the language folder is
\* created and the episode loop starts
TrEnterEpisodes ==
    /\ tr_stage' = [tr_stage EXCEPT !.next = 1,
                                    !.calls = [e \in 1..Len(tr_files.out) |-> 0]]
    /\ tr_pc' = "episodes"

\* _generate_glossary_for_language up to the term loop: an existing glossary
\* file is loaded as it is
TrGlossary ==
    /\ tr_pc = "glossary"
    /\ IF tr_files.has_glossary
       THEN TrEnterEpisodes /\ tr_files' = [tr_files EXCEPT !.dir = TRUE]
       ELSE /\ tr_pc' = "terms"
            /\ tr_stage' = [tr_stage EXCEPT !.term_next = 1,
                                            !.term_calls = [t \in 1..tr_pipe.terms |-> 0]]
            /\ UNCHANGED tr_files
    /\ UNCHANGED tr_pipe
    /\ UNCHANGED tr_frame

\* one iteration of the term loop: translate_term and add_term, or
\* `except Exception: pass`
TrTerm ==
    /\ tr_pc = "terms"
    /\ tr_stage.term_next <= tr_pipe.terms
    /\ \E ok \in BOOLEAN :
          tr_files' = IF ok THEN [tr_files EXCEPT !.glossary = Append(@, tr_stage.term_next)]
                      ELSE tr_files
    /\ tr_stage' = [tr_stage EXCEPT !.term_calls[tr_stage.term_next] = @ + 1,
                                    !.term_next = @ + 1]
    /\ UNCHANGED <<tr_pipe, tr_pc>>
    /\ UNCHANGED tr_frame

\* the end of the term loop: the glossary is saved; _translate_episodes_for_language
\* creates the language folder
TrSaveGlossary ==
    /\ tr_pc = "terms"
    /\ tr_stage.term_next > tr_pipe.terms
    /\ tr_files' = [tr_files EXCEPT !.has_glossary = TRUE, !.dir = TRUE]
    /\ TrEnterEpisodes
    /\ UNCHANGED tr_pipe
    /\ UNCHANGED tr_frame

\* `if output_file.exists()` with translated_to == target_lang: the episode is skipped
TrSkip ==
    /\ tr_pc = "episodes"
    /\ tr_stage.next <= Len(tr_files.out)
    /\ tr_files.out[tr_stage.next] = "done"
    /\ tr_stage' = [tr_stage EXCEPT !.skipped_episodes = @ \cup {tr_stage.next},
                                    !.next = @ + 1]
    /\ UNCHANGED <<tr_files, tr_pipe, tr_pc>>
    /\ UNCHANGED tr_frame

\* one attempt of `for attempt in range(max_retries)`: the translation is
\* saved, or the attempt is repeated, or the third failure is recorded
TrTranslate ==
    /\ tr_pc = "episodes"
    /\ tr_stage.next <= Len(tr_files.out)
    /\ tr_files.out[tr_stage.next] # "done"
    /\ \E ok \in BOOLEAN :
          IF ok
          THEN /\ tr_files' = [tr_files EXCEPT !.out[tr_stage.next] = "done"]
               /\ tr_stage' = [tr_stage EXCEPT !.calls[tr_stage.next] = @ + 1,
                                               !.attempt = 0, !.next = @ + 1]
          ELSE /\ UNCHANGED tr_files
               /\ tr_stage' =
                     IF tr_stage.attempt < translate_max_retries - 1
                     THEN [tr_stage EXCEPT !.calls[tr_stage.next] = @ + 1,
                                           !.attempt = @ + 1]
                     ELSE [tr_stage EXCEPT !.calls[tr_stage.next] = @ + 1,
                                           !.failed_episodes = @ \cup {tr_stage.next},
                                           !.attempt = 0, !.next = @ + 1]
    /\ UNCHANGED <<tr_pipe, tr_pc>>
    /\ UNCHANGED tr_frame

\* the end of the episode loop and of the stage
TrEndStage ==
    /\ tr_pc = "episodes"
    /\ tr_stage.next > Len(tr_files.out)
    /\ tr_pc' = "ended"
    /\ UNCHANGED <<tr_files, tr_pipe, tr_stage>>
    /\ UNCHANGED tr_frame

\* the pipeline is started again on the same series folder
TrNewRun ==
    /\ tr_pc = "ended"
    /\ tr_pipe.run < MaxRuns
    /\ \E auto \in BOOLEAN :
          tr_pipe' = [tr_pipe EXCEPT !.run = @ + 1, !.auto_mode = auto, !.choice = "none",
                                     !.start = tr_files.out]
    /\ tr_pc' = "pipeline"
    /\ UNCHANGED <<tr_files, tr_stage>>
    /\ UNCHANGED tr_frame

TrNext ==
    \/ TrStageCheck
    \/ TrGlossary
    \/ TrTerm
    \/ TrSaveGlossary
    \/ TrSkip
    \/ TrTranslate
    \/ TrEndStage
    \/ TrNewRun

-----------------------------------------------------------------------------
(* Specifications.                                                         *)

InitGlossary == GInit /\ NcIdle /\ QaIdle /\ SpIdle /\ ClIdle /\ StIdle /\ TrIdle
SpecGlossary == InitGlossary /\ [][GNext]_vars

InitNames == NcInit /\ GIdle /\ QaIdle /\ SpIdle /\ ClIdle /\ StIdle /\ TrIdle
SpecNames == InitNames /\ [][NcNext]_vars

InitQA == QaInit /\ GIdle /\ NcIdle /\ SpIdle /\ ClIdle /\ StIdle /\ TrIdle
SpecQA == InitQA /\ [][QaNext]_vars

InitSplit == SpInit /\ GIdle /\ NcIdle /\ QaIdle /\ ClIdle /\ StIdle /\ TrIdle
SpecSplit == InitSplit /\ [][SpNext]_vars
\* process runs on: as long as it has neither returned nor raised it takes
\* another step (each step of SpNext moves sp_pc, and one is possible in every
\* state before "done")
SpRuns ==
    /\ sp_pc \notin {"done", "saved"}
    /\ \E pc \in {"plan", "inline", "regex", "llm", "titles", "check", "processed", "done"} :
          sp_pc' = pc /\ pc # sp_pc
SpecSplitLive == InitSplit /\ [][SpNext]_vars /\ WF_sp_pc(SpRuns)

InitClean == ClInit /\ GIdle /\ NcIdle /\ QaIdle /\ SpIdle /\ StIdle /\ TrIdle
SpecClean == InitClean /\ [][ClNext]_vars

InitStage == StInit /\ GIdle /\ NcIdle /\ QaIdle /\ SpIdle /\ ClIdle /\ TrIdle
SpecStage == InitStage /\ [][StNext]_vars

InitTranslate == TrInit /\ GIdle /\ NcIdle /\ QaIdle /\ SpIdle /\ ClIdle /\ StIdle
SpecTranslate == InitTranslate /\ [][TrNext]_vars

-----------------------------------------------------------------------------
\* C1: in every reachable glossary state no two entries of the term list have
\* the same `original`.
C1_UniqueOriginals ==
    \A i, j \in 1..Len(terms) : terms[i].original = terms[j].original => i = j

\* the given-name part of a full name's translation, as the claim defines it
C2_GivenPart(translation, lang) ==
    IF lang = "japanese" THEN AfterFirst(translation, MIDDLE_DOT_KATAKANA)
    ELSE IF translation = <<>> THEN <<>> ELSE Tail(translation)

\* a character full name: a recognised one-character surname followed by a
\* given name of at least 2 characters
C2_IsCharacterFullName(term) ==
    /\ term.category = "character"
    /\ Len(term.original) >= 3
    /\ term.original[1] \in korean_surnames

\* C2 as stated: after enforce_name_consistency, every term whose original is
\* exactly the given name of a character full-name term has the given-name part
\* of that full name's translation as its translation.
C2_Original ==
    nc_pc = "enforced" =>
        \A i, j \in 1..Len(nc_pre) :
            ( /\ C2_IsCharacterFullName(nc_pre[i])
              /\ nc_lang = "japanese" => HasChar(nc_pre[i].translation, MIDDLE_DOT_KATAKANA)
              /\ nc_pre[j].original = Tail(nc_pre[i].original) )
            => nc_terms[j].translation = C2_GivenPart(nc_pre[i].translation, nc_lang)

\* the full name's translation can be split into surname and given name
C2_Splittable(translation, lang) ==
    \/ lang = "japanese" /\ HasChar(translation, MIDDLE_DOT_KATAKANA)
    \/ lang = "taiwanese" /\ Len(translation) >= 3

\* term j is a plain given-name entry: not itself an excluded name (a splittable
\* full name or a multi-part original), not the first token of a multi-part
\* character name, and no other given name of a splittable full name occurs in it
C2_PlainGivenName(j) ==
    LET o == nc_pre[j].original
    IN  /\ ~is_multi_part(o)
        /\ ~(C2_IsCharacterFullName(nc_pre[j]) /\ C2_Splittable(nc_pre[j].translation, nc_lang))
        /\ \A k \in 1..Len(nc_pre) :
              /\ ~( /\ nc_pre[k].category = "character"
                    /\ is_multi_part(nc_pre[k].original)
                    /\ Tokens(nc_pre[k].original)[1] = o )
              /\ ~( /\ C2_IsCharacterFullName(nc_pre[k])
                    /\ C2_Splittable(nc_pre[k].translation, nc_lang)
                    /\ Tail(nc_pre[k].original) # o
                    /\ Contains(o, Tail(nc_pre[k].original)) )

\* C2 (amended): after enforce_name_consistency, a plain given-name term whose
\* original is exactly the given name of a character full-name term with a
\* splittable translation (the last such full name in glossary order) has the
\* given-name part of that full name's translation as its translation.
C2_GivenNameFollowsFullName ==
    nc_pc = "enforced" =>
        \A i, j \in 1..Len(nc_pre) :
            ( /\ C2_IsCharacterFullName(nc_pre[i])
              /\ C2_Splittable(nc_pre[i].translation, nc_lang)
              /\ \A k \in (i + 1)..Len(nc_pre) :
                    ~( /\ C2_IsCharacterFullName(nc_pre[k])
                       /\ C2_Splittable(nc_pre[k].translation, nc_lang)
                       /\ Tail(nc_pre[k].original) = Tail(nc_pre[i].original) )
              /\ nc_pre[j].original = Tail(nc_pre[i].original)
              /\ C2_PlainGivenName(j) )
            => nc_terms[j].translation = C2_GivenPart(nc_pre[i].translation, nc_lang)

\* the example of the claim: {이서연 -> 李書妍, 서연 -> 舒妍} has become 서연 -> 書妍
C2_Witness ==
    /\ nc_pc = "enforced"
    /\ nc_lang = "taiwanese"
    /\ \E i, j \in 1..Len(nc_pre) :
          /\ nc_pre[i].original = <<51060, 49436, 50672>>
          /\ nc_pre[i].translation = <<26446, 26360, 22925>>
          /\ nc_pre[j].original = <<49436, 50672>>
          /\ nc_pre[j].translation = <<33298, 22925>>
          /\ nc_terms[j].translation = <<26360, 22925>>

\* C3 as stated: after enforce_name_consistency, a compound term whose original
\* contains the given name of a full name, and whose translation was built from
\* the given-name term's old (wrong) translation, contains the correct
\* given-name translation and no longer contains the old one.
C3_CompoundFollowsGivenName ==
    nc_pc = "enforced" =>
        \A i, s, j \in 1..Len(nc_pre) :
            LET given == Tail(nc_pre[i].original)
                correct == C2_GivenPart(nc_pre[i].translation, nc_lang)
                wrong == nc_pre[s].translation
            IN  ( /\ C2_IsCharacterFullName(nc_pre[i])
                  /\ C2_Splittable(nc_pre[i].translation, nc_lang)
                  /\ \A k \in 1..Len(nc_pre) :
                        ( /\ k \notin {i, j}
                          /\ C2_IsCharacterFullName(nc_pre[k])
                          /\ C2_Splittable(nc_pre[k].translation, nc_lang) )
                            => ~Contains(nc_pre[j].original, Tail(nc_pre[k].original))
                  /\ nc_pre[s].original = given
                  /\ nc_pre[s].category = "character"
                  /\ wrong # correct
                  /\ ~Contains(correct, wrong)
                  /\ nc_pre[j].original # given
                  /\ Contains(nc_pre[j].original, given)
                  /\ ~( /\ C2_IsCharacterFullName(nc_pre[j])
                        /\ C2_Splittable(nc_pre[j].translation, nc_lang) )
                  /\ Contains(nc_pre[j].translation, wrong) )
                => /\ Contains(nc_terms[j].translation, correct)
                   /\ ~Contains(nc_terms[j].translation, wrong)

\* the text of the language-mixing example: 그는 집에 갔다와서 彼は家に帰った
C4_Text ==
    <<44536, 45716, 32, 51665, 50640, 32, 44052, 45796, 50752, 49436, 32,
      24444, 12399, 23478, 12395, 24112, 12387, 12383>>

C4_IsMixing(issue) == issue.type = "language_mixing"
C4_MixingIssues == SelectSeq(qa_result.issues, C4_IsMixing)
C4_ExampleValidated ==
    /\ qa_pc = "validated"
    /\ qa_text = C4_Text
    /\ qa_src = "korean"
    /\ qa_tgt = "japanese"
    /\ ~qa_skip

\* C4 (as claimed): validating the example text with source korean and target
\* japanese yields exactly one error-severity language_mixing issue (the Korean
\* words and the spaces between them counting as one run).
C4_OneIssuePerSpacedRun ==
    C4_ExampleValidated =>
        Cardinality({k \in 1..Len(C4_MixingIssues) :
                        C4_MixingIssues[k].severity = "error"}) = 1

\* issue k is exactly one maximal run of Korean syllable characters of the text
C4_IsMaximalRun(issue) ==
    LET first == issue.position + 1
        last == issue.position + Len(issue.text)
    IN  /\ issue.text # <<>>
        /\ last <= Len(qa_text)
        /\ SubSeq(qa_text, first, last) = issue.text
        /\ \A n \in first..last : IsKoreanSyllable(qa_text[n])
        /\ first > 1 => ~IsKoreanSyllable(qa_text[first - 1])
        /\ last < Len(qa_text) => ~IsKoreanSyllable(qa_text[last + 1])

\* C4 (amended): check_language_mixing reports one issue per maximal run of
\* Korean syllable characters (U+AC00..U+D7AF), in text order; a space ends a
\* run. An issue is a warning exactly when its run is a word of the
\* onomatopoeia list, else an error. The example text yields three errors,
\* for 그는, 집에 and 갔다와서, none of them downgraded.
C4_OneIssuePerSyllableRun ==
    (qa_pc = "validated" /\ ~qa_skip /\ qa_src = "korean") =>
        /\ \A k \in 1..Len(C4_MixingIssues) :
              /\ C4_IsMaximalRun(C4_MixingIssues[k])
              /\ C4_MixingIssues[k].severity =
                    (IF C4_MixingIssues[k].text \in KOREAN_ONOMATOPOEIA
                     THEN "warning" ELSE "error")
              /\ k > 1 => C4_MixingIssues[k - 1].position < C4_MixingIssues[k].position
        /\ \A n \in 1..Len(qa_text) :
              IsKoreanSyllable(qa_text[n]) =>
                 \E k \in 1..Len(C4_MixingIssues) :
                    /\ C4_MixingIssues[k].position < n
                    /\ n <= C4_MixingIssues[k].position + Len(C4_MixingIssues[k].text)
        /\ qa_text = C4_Text =>
              /\ Len(C4_MixingIssues) = 3
              /\ C4_MixingIssues[1].text = <<44536, 45716>>
              /\ C4_MixingIssues[2].text = <<51665, 50640>>
              /\ C4_MixingIssues[3].text = <<44052, 45796, 50752, 49436>>
              /\ \A k \in 1..3 : C4_MixingIssues[k].severity = "error"

C4_Witness ==
    /\ C4_ExampleValidated
    /\ Len(C4_MixingIssues) = 3

C5_IsMismatch(issue) == issue.type = "glossary_mismatch"

\* C5: after auto_fix on the issues of validate and a second validate of the
\* returned text with the same validator, no glossary_mismatch issue is left
\* for a term (expected translation) that had a glossary_mismatch issue in
\* the first validation.
C5_FixedMismatchStaysFixed ==
    qa_pc = "revalidated" =>
        \A i \in 1..Len(qa_result.issues) :
            C5_IsMismatch(qa_result.issues[i]) =>
                ~\E j \in 1..Len(qa_recheck.issues) :
                    /\ C5_IsMismatch(qa_recheck.issues[j])
                    /\ qa_recheck.issues[j].expected = qa_result.issues[i].expected

\* ---- the episode splitter ----

\* C6: the confidence reported in the metadata of the splitter's result is
\* never below 70, whatever confidence the Backend reported and whichever
\* method produced the episodes.
C6_ConfidenceAtLeast70 ==
    sp_pc = "processed" => sp_meta.confidence >= 70

\* C6 (amended): the confidence _validate_split returns is never below 70; the
\* confidence in the metadata is the smaller of it and the confidence of the
\* method, so it is below 70 exactly when the method's confidence is, and
\* execute returns no result whose confidence is below 70.
C6_ValidationFloor ==
    /\ sp_pc = "processed" =>
          /\ sp_meta.validation >= 70
          /\ sp_meta.confidence = Min2(sp_conf, sp_meta.validation)
          /\ (sp_meta.confidence < 70 <=> sp_conf < 70)
    /\ sp_out = "returned" => sp_meta.confidence >= 70

\* the four checks take the score below 70 and the floor lifts it
C6_Witness ==
    /\ sp_pc = "processed"
    /\ validation_score(sp_eps, sp_info, sp_text) < 70
    /\ sp_meta.validation = 70

\* C7: for a non-empty text, process never hands execute an empty episode
\* list: a strategy that produces no episode degrades to one episode holding
\* the whole text.
C7_NeverEmptyEpisodeList ==
    sp_text # <<>> /\ sp_pc = "processed" => sp_eps # <<>>

\* no line of the text matches a catalog pattern and the text holds no inline
\* marker
C8_NoPattern(text) ==
    /\ pattern_counts(SplitLines(text), Len(KNOWN_PATTERNS)) = <<>>
    /\ inline_count(text) = 0

\* process has returned for a text without pattern for which the Backend
\* reported a single episode or failed
C8_Case ==
    /\ sp_pc = "processed"
    /\ ~sp_info.is_multi_episode
    /\ C8_NoPattern(sp_text)

C8_Deductions(text, e) ==
    (IF Len(Tokens(text)) < 20 THEN 5 ELSE 0)
    + (IF e > 0 /\ 5 * (IF e >= 1 THEN e - 1 ELSE 1 - e) > e THEN 10 ELSE 0)

C9_Bodies == {b \in SpBodies : Strip(b) # <<>>}

\* manuscripts with K >= 3 separator lines of one catalog pattern, numbered
\* 1..K, each followed by a body
C9_Manuscripts ==
    {[text |-> Manuscript(l, "sequential", p, b), bodies |-> b, preamble |-> p] :
        l \in {x \in SpLayouts : is_known_pattern(x.style) /\ x.glue = <<NEWLINE>>},
        p \in SpPreambles,
        b \in {s \in SeqUpTo(C9_Bodies, MaxEpisodes) : Len(s) >= 3}}

\* the manuscript's lines that hold content, in order: every non-empty line
\* that is no separator, and what follows the marker on a separator line
RECURSIVE C9_ContentLines(_, _)
C9_ContentLines(lines, els) ==
    IF lines = <<>> THEN <<>>
    ELSE LET s == line_stripped(Head(lines))
             mt == re_match(els, s)
             rest == IF mt.ok THEN Strip(SubSeq(s, mt.end + 1, Len(s))) ELSE s
         IN  (IF rest = <<>> THEN <<>> ELSE <<rest>>)
             \o C9_ContentLines(Tail(lines), els)

C9_NonBlank(line) == Strip(line) # <<>>

\* the non-empty lines of the episodes' contents, in order
RECURSIVE C9_EpisodeLines(_)
C9_EpisodeLines(episodes) ==
    IF episodes = <<>> THEN <<>>
    ELSE SelectSeq(SplitLines(Head(episodes).content), C9_NonBlank)
         \o C9_EpisodeLines(Tail(episodes))

\* K episodes numbered 1..K holding the manuscript's content lines
C9_SplitsInto(K) ==
    /\ Len(sp_eps) = K
    /\ \A k \in 1..Len(sp_eps) : sp_eps[k].number = k
    /\ C9_EpisodeLines(sp_eps)
          = C9_ContentLines(SplitLines(sp_text), sp_info.patterns[1].pattern_regex.els)

\* C9: a manuscript with K >= 3 separator lines of one catalog pattern,
\* numbered 1..K and each followed by a non-empty content line, gives exactly K
\* episodes numbered 1..K in source order with final confidence >= 95 and every
\* content line in exactly one episode.
C9_KEpisodesAt95 ==
    sp_pc = "processed" =>
        \A c \in C9_Manuscripts :
            c.text = sp_text =>
                /\ C9_SplitsInto(Len(c.bodies))
                /\ sp_meta.confidence >= 95

\* the manuscript starts with its first separator, no body ends in a trailing
\* marker, and the title extraction promoted no line
C9_CleanCase(c) ==
    /\ c.text = sp_text
    /\ c.preamble = <<>>
    /\ \A k \in 1..Len(c.bodies) : clean_trailing_episode_marker(c.bodies[k]) = c.bodies[k]
    /\ \A k \in 1..Len(sp_eps) : sp_eps[k].title = <<>>

\* C9 (amended): when, in addition, the manuscript starts with its first
\* separator line, no episode's text ends in a trailing marker or scene break
\* and the title extraction promotes no line, the splitter gives exactly K
\* episodes numbered 1..K in source order with every content line in exactly
\* one episode; the final confidence is 95 when the episodes hold at least 80%
\* of the manuscript's characters and 85 or 90 otherwise.
C9_KEpisodesCleanCase ==
    sp_pc = "processed" =>
        \A c \in C9_Manuscripts :
            C9_CleanCase(c) =>
                /\ C9_SplitsInto(Len(c.bodies))
                /\ sp_method = "regex"
                /\ IF 5 * total_chars(sp_eps) >= 4 * Len(sp_text)
                   THEN sp_meta.confidence = 95
                   ELSE sp_meta.confidence \in {85, 90}

\* a clean manuscript of three long episodes has been split at confidence 95
C9_Witness ==
    /\ sp_pc = "processed"
    /\ \E c \in C9_Manuscripts : C9_CleanCase(c)
    /\ Len(sp_eps) >= 3
    /\ sp_meta.confidence = 95

\* the episodes come from _regex_split, _multi_pattern_regex_split or
\* _inline_split: the method is inline, or it is regex with an expression that
\* compiles, so that _llm_split is not called
C10_RegexBased ==
    \/ sp_method = "inline"
    \/ /\ sp_method = "regex"
       /\ IF Len(sp_info.patterns) > 1
          THEN compiled_patterns(sp_info.patterns) # <<>>
          ELSE sp_info.patterns # <<>> /\ sp_info.patterns[1].pattern_regex.kind = "ok"

\* C10: no episode returned by a regex-based split strategy has empty or
\* whitespace-only content.
C10_NoBlankEpisode ==
    sp_pc = "check" /\ C10_RegexBased =>
        \A k \in 1..Len(sp_eps) : Strip(sp_eps[k].content) # <<>>

\* C11: whenever the direct detection accepts a plan without the Backend (one
\* line-start pattern, the combined pattern or the inline pattern), the
\* accepted pattern has at least 3 matches in the text.
C11_DirectNeedsThreeMatches ==
    sp_pc = "plan" /\ detect_known_pattern_directly(sp_text).found =>
        sp_info.estimated_episodes >= 3

\* ---- clean_trailing_episode_marker ----

\* the line is a separator marker as the trailing patterns recognise one
C12_IsMarker(line) ==
    \E k \in 1..Len(TRAILING_EPISODE_PATTERNS) :
        re_match(TRAILING_EPISODE_PATTERNS[k], <<NEWLINE>> \o line).ok

\* the content, trailing whitespace apart, ends in a marker line that follows
\* other lines
C12_EndsInMarker(content) ==
    LET lines == SplitLines(RStrip(content))
    IN  Len(lines) >= 2 /\ C12_IsMarker(lines[Len(lines)])

\* the content without its last line and the whitespace before it
C12_WithoutLastLine(content) ==
    LET lines == SplitLines(RStrip(content))
    IN  RStrip(JoinLines(SubSeq(lines, 1, Len(lines) - 1)))

\* C12: clean_trailing_episode_marker removes exactly one marker at the end of
\* the content together with the whitespace around it, and a content that does
\* not end in a marker is returned unchanged apart from trailing whitespace.
C12_OnlyTrailingMarkerRemoved ==
    cl_pc = "returned" =>
        cl_cleaned = IF C12_EndsInMarker(cl_content)
                     THEN C12_WithoutLastLine(cl_content)
                     ELSE RStrip(cl_content)

\* C13: when the pattern detection of the Backend fails (the call raises, the
\* answer is not JSON or lacks a required key) the run returns the whole text
\* as the single episode and does not raise.
C13_DetectionFailed == sp_info = FallbackInfo \/ ~sp_info.has_is_multi_episode
C13_FailedDetectionGivesSingleEpisode ==
    sp_pc = "done" /\ C13_DetectionFailed =>
        sp_out = "returned" /\ sp_method = "single" /\ sp_eps = single_episode(sp_text)

\* C14: for every issue passed to auto_fix, on return the issue is in
\* unfixed_issues, or its text was replaced and counted, or its text no longer
\* occurs in the returned text; a language_mixing error whose re-translation
\* is missing, raises or still holds Hangul is not among the replaced ones,
\* and no replacement taken from the Backend holds Hangul.
C14_InList(x, list) == \E n \in 1..Len(list) : list[n] = x
C14_Replaced(issue) == \E n \in 1..Len(qa_fix.auto_fixed) : qa_fix.auto_fixed[n].issue = issue
C14_FromBackend(n) == qa_fix.auto_fixed[n].issue.type = "language_mixing"
C14_BadAnswer(a) == a.kind # "output" \/ a.output = <<>> \/ korean_search(Strip(a.output))
C14_NoIssueSilentlyDropped ==
    qa_pc \in {"fixed", "revalidated"} =>
        /\ Len(qa_fix.auto_fixed) = qa_fix.fixed_count
        /\ \A k \in 1..Len(qa_result.issues) :
              \/ C14_InList(qa_result.issues[k], qa_fix.unfixed_issues)
              \/ C14_Replaced(qa_result.issues[k])
              \/ ~Contains(qa_fix.fixed_text, qa_result.issues[k].text)
        /\ \A j \in 1..Len(qa_backend.answers) :
              C14_BadAnswer(qa_backend.answers[j]) =>
                  ~C14_Replaced(collected_mixing(qa_text, qa_result.issues)[j])
        /\ \A n \in 1..Len(qa_fix.auto_fixed) :
              C14_FromBackend(n) => ~korean_search(qa_fix.auto_fixed[n].by)

\* C15: with auto-fix enabled the loop makes at most max_retries passes, and
\* control is back at the loop head with budget left only after a pass that
\* found errors and applied fixes: a pass with zero fixes and errors left, or
\* with zero errors, ends the loop.
C15_LoopStopsWithoutProgress ==
    st_pc # "idle" /\ st_args.auto_fix =>
        /\ st_run.retry_count <= st_args.max_retries
        /\ st_pc = "while" /\ st_run.retry_count > 0
             /\ st_run.retry_count < st_args.max_retries =>
               st_run.lang_errors > 0 /\ st_run.lang_fixed > 0
C15_Witness ==
    /\ st_pc = "recorded"
    /\ st_args.auto_fix
    /\ st_run.retry_count = 2
    /\ st_run.retry_count < st_args.max_retries
    /\ st_run.lang_fixed = 0
    /\ st_run.lang_errors > 0

\* C16: a validator whose source and target languages normalise to the same
\* language returns passed = True and no issue, whatever the text and glossary.
C16_SameLanguage == normalize_language(qa_src) = normalize_language(qa_tgt)
C17_ForEntry(issues, term) ==
    {k \in 1..Len(issues) : issues[k].type = "untranslated_term" /\ issues[k].text = term.original}
C17_OneUntranslatedIssuePerEntry ==
    qa_pc = "validated" /\ normalize_language(qa_src) # normalize_language(qa_tgt) =>
        \A n \in 1..Len(qa_glossary) :
            LET term == qa_glossary[n]
            IN  term.original # <<>> /\ term.translation # <<>>
                /\ Contains(qa_text, term.original) =>
                   /\ Cardinality(C17_ForEntry(qa_result.issues, term)) = 1
                   /\ \A k \in C17_ForEntry(qa_result.issues, term) :
                         /\ qa_result.issues[k].severity = "error"
                         /\ qa_result.issues[k].expected = term.translation

\* C18: in every QAResult validate returns, passed is true exactly when no
\* issue of the list has severity error; warnings alone never fail a text.
C18_NoErrorIssue(result) ==
    \A k \in 1..Len(result.issues) : result.issues[k].severity # "error"
C18_PassedIffNoError ==
    /\ qa_pc \in {"validated", "fixed", "revalidated"} =>
          (qa_result.passed <=> C18_NoErrorIssue(qa_result))
    /\ qa_pc = "revalidated" =>
          (qa_recheck.passed <=> C18_NoErrorIssue(qa_recheck))
C18_Witness ==
    /\ qa_pc = "validated"
    /\ qa_result.issues # <<>>
    /\ C18_NoErrorIssue(qa_result)
    /\ qa_result.passed

\* C19: add_term called with an original that a term of the list already has
\* leaves the term list as it was: same length, and the existing entry keeps
\* its translation, category and context.
C19_Present(ts, original) == \E i \in 1..Len(ts) : ts[i].original = original
C19_AddExistingIsNoOp ==
    [][g_op'.op = "add_term" /\ C19_Present(terms, g_op'.original) => terms' = terms]_vars
C19_Witness ==
    /\ g_op.op = "add_term"
    /\ \E i \in 1..Len(terms) :
          /\ terms[i].original = g_op.original
          /\ terms[i].translation # g_op.translation

\* C20: with auto-fix enabled, the result recorded for the language describes
\* the episode texts as they are stored: every stored text, also one that the
\* last pass fixed, has been validated after its last change, so each recorded
\* QAResult is a result of validating the stored text, and the recorded error
\* count and verdict are those of the stored texts.
C20_Validations(content) ==
    validate(content, LANGUAGE_CONFIG(st_args.lang).source_lang, st_args.glossary,
             skip_language_mixing(LANGUAGE_CONFIG(st_args.lang).source_lang,
                                  LANGUAGE_CONFIG(st_args.lang).target_lang,
                                  LANGUAGE_CONFIG(st_args.lang).skip_language_mixing))
C20_RecordedResultDescribesStoredText ==
    st_pc = "recorded" /\ st_args.auto_fix =>
        /\ Len(st_all_results.results) = Len(st_files)
        /\ \A i \in 1..Len(st_files) :
              st_all_results.results[i] \in C20_Validations(st_files[i])
        /\ st_all_results.passed =
              (\A i \in 1..Len(st_files) : \A r \in C20_Validations(st_files[i]) : r.passed)

\* C21: a separator expression of the Backend that does not compile never makes
\* the splitter raise: the regex strategy, with one pattern as well as with
\* several, ends with episodes or hands over to another strategy.
C21_BadRegex(info) ==
    \/ info.pattern_regex.kind = "invalid"
    \/ \E k \in 1..Len(info.patterns) : info.patterns[k].pattern_regex.kind = "invalid"
C21_CompileFailureFallsBack ==
    [][sp_pc = "regex" /\ C21_BadRegex(sp_info) => sp_out' # "raised"]_vars

\* C22: enforce_name_consistency changes the translation of character terms
\* only: a term of any other category has the same translation after the
\* enforcement as before it.
C22_OnlyCharacterTermsChange ==
    nc_pc = "enforced" =>
        \A i \in 1..Len(nc_pre) :
            nc_pre[i].category # "character" =>
                nc_terms[i].translation = nc_pre[i].translation

\* C27: enforce_name_consistency is idempotent: applied to its own output it
\* changes no translation (for 'taiwanese' in particular, a compound term
\* whose translation already contains the correct given name stays as it is).
C27_Translations(ts) == [i \in 1..Len(ts) |-> ts[i].translation]
C27_EnforceIsIdempotent ==
    nc_pc = "enforced" =>
        C27_Translations(enforce_name_consistency(nc_terms, nc_lang))
            = C27_Translations(nc_terms)

\* C26: whatever the text and whatever the Backend answers, process comes to
\* an end (it returns or raises): _llm_split and _regex_split hand over to each
\* other only a bounded number of times.
C26_ProcessTerminates == <>(sp_pc = "done")

\* C28: whenever auto_fix reports fixes (fixed_count > 0) the text it returns
\* differs from the text it was given.
C28_ReportedFixChangesText ==
    qa_pc \in {"fixed", "revalidated"} /\ qa_fix.fixed_count > 0
        => qa_fix.fixed_text # qa_text

\* C25: while the episodes of a language are validated, every expected
\* translation of a glossary term comes from the glossary of that language:
\* the `expected` of each untranslated-term or glossary-mismatch issue is a
\* translation recorded in the language's own glossary file.
C25_OwnGlossary == st_args.glossary_files[st_args.lang]
C25_FromOwnGlossary(issue) ==
    issue.type \in {"untranslated_term", "glossary_mismatch"} =>
        \E k \in 1..Len(C25_OwnGlossary) : C25_OwnGlossary[k].translation = issue.expected
C25_ExpectedFromOwnGlossary ==
    st_pc # "idle" =>
        \A n \in 1..Len(st_run.lang_results) :
            \A i \in 1..Len(st_run.lang_results[n].issues) :
                C25_FromOwnGlossary(st_run.lang_results[n].issues[i])

\* C29: a language is recorded as passed only if every one of its episode
\* files was loaded and validated, with no error-severity issue; a file whose
\* processing raised is never counted as clean.
C29_PassedMeansEveryFileClean ==
    st_pc = "recorded" /\ st_all_results.passed =>
        /\ Len(st_all_results.results) = Len(st_files)
        /\ \A n \in 1..Len(st_all_results.results) :
              error_count(st_all_results.results[n]) = 0

-----------------------------------------------------------------------------
(* C23: in stage 2 a Backend failure on one item (an episode body or a     *)
(* glossary term) is retried up to the fixed attempt count, then recorded  *)
(* as a failure of that item, and the stage goes on with the next item: at *)
(* the end of a stage that ran, every item was reached, and every item     *)
(* left without a translation had the full number of attempts and (an      *)
(* episode) stands in failed_episodes.                                     *)
C23_FailedTerms ==
    {t \in DOMAIN tr_stage.term_calls :
        \A i \in DOMAIN tr_files.glossary : tr_files.glossary[i] # t}

C23_FailedItemRetriedThenRecorded ==
    tr_pc = "ended" /\ tr_pipe.choice = "r" =>
        /\ tr_stage.next > Len(tr_files.out)
        /\ \A e \in DOMAIN tr_files.out :
              tr_files.out[e] # "done" =>
                  /\ tr_stage.calls[e] = translate_max_retries
                  /\ e \in tr_stage.failed_episodes
        /\ \A t \in C23_FailedTerms : tr_stage.term_calls[t] = translate_max_retries

-----------------------------------------------------------------------------
(* C24: after a run in which the translation of some episode failed, a     *)
(* later pipeline run (in auto mode, or when the user has the stage rerun) *)
(* calls the Backend for exactly the episodes that had no completed output *)
(* when the run started.                                                   *)
C24_Attempted ==
    {e \in DOMAIN tr_stage.calls : tr_stage.calls[e] > 0}

C24_LaterRunResumesFailedEpisodes ==
    (/\ tr_pc = "ended"
     /\ tr_pipe.run > 1
     /\ tr_pipe.auto_mode \/ tr_pipe.choice = "r") =>
        C24_Attempted = {e \in DOMAIN tr_pipe.start : tr_pipe.start[e] # "done"}

-----------------------------------------------------------------------------
(* C30: stage 1 keeps every episode the splitter returned in a file of its *)
(* own: after the save loop there are as many episode files as episodes    *)
(* returned, and each returned episode is the content of a file.           *)
C30_EveryEpisodeHasItsOwnFile ==
    sp_pc = "saved" =>
        /\ Cardinality(sp_files) = Len(sp_eps)
        /\ \A i \in DOMAIN sp_eps : \E f \in sp_files : f.data = episode_data(sp_eps[i])

=============================================================================
